---- MODULE Spec2Model ----
(***************************************************************************)
(* A model of glox: the lexer (a state-function scanner that runs in a     *)
(* goroutine and hands tokens over a buffered channel), the precedence     *)
(* climbing parser and the tree walking interpreter with its environment.  *)
(*                                                                         *)
(* Source text is a sequence of bytes.  A byte is written as a one         *)
(* character string; three bytes have longer names: "NUL" (0x00), "xC3"    *)
(* and "xA9" (the two bytes of the UTF-8 encoding of U+00E9).  Offsets are *)
(* 0-based as in the Go code, so byte k of src is src[k + 1].              *)
(***************************************************************************)
EXTENDS Integers, Sequences, FiniteSets, TLC

VARIABLES
    lexer,      \* the Lexer struct without its channel: src, start, pos, line, width
    state,      \* the lexFn the run loop is about to call, or where run is after the loop
    tokens,     \* the buffered channel Lexer.tokens: the tokens sent and not yet received
    closed,     \* whether close(l.tokens) has happened
    got,        \* the tokens returned by the NextToken calls made so far, in order
    parser,     \* the Parser struct: src, errs, current, next and its token stream
    prog,       \* the local prog of Parser.Parse: the statements appended so far
    pstate,     \* where Parse is: "loop" or "returned" ("none": no parser exists)
    envs,       \* the heap of Environment structs, by address 1, 2, ...
    interps,    \* the Interpreter values that exist (copies share an env pointer)
    stdout,     \* what was written to the stdout writer, one entry per Fprintln
    log         \* the Eval calls made so far: interpreter, program, outcome

lexVars == <<lexer, state, tokens, closed, got>>

parseVars == <<parser, prog, pstate>>

evalVars == <<envs, interps, stdout, log>>

vars == <<lexer, state, tokens, closed, got, parser, prog, pstate, envs, interps, stdout, log>>

\* With(v, F) is F(v): v is a local variable of the code, computed once and
\* named by the parameter of F.
With(v, F(_)) == F(v)

(***************************************************************************)
(* Bounds.                                                                 *)
(***************************************************************************)
MaxSrcLen == 3      \* longest source text handed to lexer.New
MaxTail == 2        \* NextToken calls made after the first EOF was returned
MaxNumberLen == 5   \* longest source text made of digits and dots only

(***************************************************************************)
(* token: kinds, the zero Token, classification.                           *)
(***************************************************************************)
bufferSize == 128

\* Kind 0 is EOF, so the zero value of Token has Kind EOF.
ZeroKind == "EOF"

ZeroToken == [Kind |-> ZeroKind, Start |-> 0, End |-> 0]

Token(kind, s, e) == [Kind |-> kind, Start |-> s, End |-> e]

KwIf == <<"i", "f">>
KwElse == <<"e", "l", "s", "e">>
KwOr == <<"o", "r">>
KwAnd == <<"a", "n", "d">>
KwFor == <<"f", "o", "r">>
KwWhile == <<"w", "h", "i", "l", "e">>
KwTrue == <<"t", "r", "u", "e">>
KwFalse == <<"f", "a", "l", "s", "e">>
KwClass == <<"c", "l", "a", "s", "s">>
KwSuper == <<"s", "u", "p", "e", "r">>
KwThis == <<"t", "h", "i", "s">>
KwFun == <<"f", "u", "n">>
KwVar == <<"v", "a", "r">>
KwNil == <<"n", "i", "l">>
KwPrint == <<"p", "r", "i", "n", "t">>
KwReturn == <<"r", "e", "t", "u", "r", "n">>

\* Keyword returns the keyword Kind of an identifier, or Ident.
Keyword(ident) ==
    CASE ident = KwIf -> "If"
      [] ident = KwElse -> "Else"
      [] ident = KwOr -> "Or"
      [] ident = KwAnd -> "And"
      [] ident = KwFor -> "For"
      [] ident = KwWhile -> "While"
      [] ident = KwTrue -> "True"
      [] ident = KwFalse -> "False"
      [] ident = KwClass -> "Class"
      [] ident = KwSuper -> "Super"
      [] ident = KwThis -> "This"
      [] ident = KwFun -> "Fun"
      [] ident = KwVar -> "Var"
      [] ident = KwNil -> "Nil"
      [] ident = KwPrint -> "Print"
      [] ident = KwReturn -> "Return"
      [] OTHER -> "Ident"

(***************************************************************************)
(* unicode / utf8 on the modelled bytes.                                   *)
(***************************************************************************)
eof == "NUL"

RuneError == "RuneError"

LeadByte == "xC3"

ContByte == "xA9"

Digits == {"0", "1", "2", "3", "4", "5", "6", "7", "8", "9"}

Letters ==
    {"a", "b", "c", "d", "e", "f", "g", "h", "i", "j", "k", "l", "m", "n",
     "o", "p", "q", "r", "s", "t", "u", "v", "w", "x", "y", "z"}

IsSpace(r) == r \in {" ", "\n", "\t", "\r"}

IsDigit(r) == r \in Digits

isAlpha(r) == r \in Letters \/ r = "_"

isAlphaNumeric(r) == isAlpha(r) \/ IsDigit(r)

\* utf8.DecodeRuneInString: the empty string decodes to (RuneError, 0), a
\* byte that does not start a valid encoding to (RuneError, 1).
DecodeRuneInString(s) ==
    IF Len(s) = 0 THEN [r |-> RuneError, w |-> 0]
    ELSE IF s[1] = LeadByte
         THEN IF Len(s) >= 2 /\ s[2] = ContByte
              THEN [r |-> "U+00E9", w |-> 2]
              ELSE [r |-> RuneError, w |-> 1]
    ELSE IF s[1] = ContByte THEN [r |-> RuneError, w |-> 1]
    ELSE [r |-> s[1], w |-> 1]

(***************************************************************************)
(* lexer: the methods of Lexer as functions on the struct.                 *)
(***************************************************************************)
NewLexer(s) == [src |-> s, start |-> 0, pos |-> 0, line |-> 1, width |-> 0]

atEOF(l) == 0 > l.pos \/ l.pos >= Len(l.src)

rest(l) == IF atEOF(l) THEN <<>> ELSE SubSeq(l.src, l.pos + 1, Len(l.src))

\* current returns the BYTE under the cursor converted to a rune.
current(l) == IF atEOF(l) THEN eof ELSE l.src[l.pos + 1]

peek(l) == DecodeRuneInString(rest(l)).r

\* next returns the rune (r) and the lexer after consuming it (l).
next(l) ==
    LET d == DecodeRuneInString(rest(l))
    IN  [r |-> d.r,
         l |-> [l EXCEPT !.width = d.w,
                         !.pos = l.pos + d.w,
                         !.line = IF d.r = "\n" THEN l.line + 1 ELSE l.line]]

backup(l) ==
    LET l1 == [l EXCEPT !.pos = l.pos - l.width]
    IN  IF l1.width = 1 /\ current(l1) = "\n"
        THEN [l1 EXCEPT !.line = l1.line - 1]
        ELSE l1

RECURSIVE skipWhitespace(_)
skipWhitespace(l) ==
    LET n == next(l)
    IN  IF ~IsSpace(n.r)
        THEN LET b == backup(n.l) IN [b EXCEPT !.start = b.pos]
        ELSE skipWhitespace(n.l)

\* The result of one state function: the lexer after it, the tokens it sent
\* on the channel (at most one) and the state function it returned.
Result(l, emitted, nxt) == [l |-> l, emit |-> emitted, next |-> nxt]

\* Mutant: the End of a token is the offset of the byte after the one the
\* lexer is at.
emit_pastEnd(l, kind, nxt) ==
    Result([l EXCEPT !.start = l.pos], <<Token(kind, l.start, l.pos + 1)>>, nxt)

\* emit sends the token start..pos and moves start up to pos.
emit(l, kind, nxt) ==
    Result([l EXCEPT !.start = l.pos], <<Token(kind, l.start, l.pos)>>, nxt)

\* Mutant: the Error token covers the source from its first byte.
error_fromFirstByte(l, s, e) == Result(l, <<Token("Error", 0, e)>>, "nil")

\* error sends an Error token and halts the state machine.
error(l, s, e) == Result(l, <<Token("Error", s, e)>>, "nil")

lexStart(l0) ==
    With(skipWhitespace(l0), LAMBDA l : With(current(l), LAMBDA char :
        Result(l, <<>>,
            CASE char = "(" -> "lexOpenParen"
              [] char = ")" -> "lexCloseParen"
              [] char = "{" -> "lexOpenBrace"
              [] char = "}" -> "lexCloseBrace"
              [] char = "," -> "lexComma"
              [] char = "." -> "lexDot"
              [] char = "-" -> "lexMinus"
              [] char = "+" -> "lexPlus"
              [] char = ";" -> "lexSemiColon"
              [] char = "/" -> "lexForwardSlash"
              [] char = "*" -> "lexStar"
              [] char = "!" -> "lexBang"
              [] char = "=" -> "lexEqual"
              [] char = ">" -> "lexGreaterThan"
              [] char = "<" -> "lexLessThan"
              [] char = "\"" -> "lexString"
              [] OTHER -> IF IsDigit(char) THEN "lexNumber"
                          ELSE IF isAlpha(char) THEN "lexIdent"
                          ELSE IF char = eof THEN "nil"
                          ELSE "lexUnexpectedChar")))

lexOpenParen(l) == emit(next(l).l, "OpenParen", "lexStart")

lexCloseParen(l) == emit(next(l).l, "CloseParen", "lexStart")

lexOpenBrace(l) == emit(next(l).l, "OpenBrace", "lexStart")

lexCloseBrace(l) == emit(next(l).l, "CloseBrace", "lexStart")

lexComma(l) == emit(next(l).l, "Comma", "lexStart")

lexDot(l) == emit(next(l).l, "Dot", "lexStart")

lexMinus(l) == emit(next(l).l, "Minus", "lexStart")

lexPlus(l) == emit(next(l).l, "Plus", "lexStart")

lexSemiColon(l) == emit(next(l).l, "SemiColon", "lexStart")

lexStar(l) == emit(next(l).l, "Star", "lexStart")

RECURSIVE absorbLine(_)
absorbLine(l) ==
    IF peek(l) # "\n" /\ ~atEOF(l) THEN absorbLine(next(l).l) ELSE l

lexForwardSlash(l0) ==
    LET l == next(l0).l
    IN  IF peek(l) = "/"
        THEN Result(absorbLine(l), <<>>, "lexStart")
        ELSE emit(l, "ForwardSlash", "lexStart")

lexBang(l0) ==
    LET l == next(l0).l
    IN  IF peek(l) = "=" THEN Result(l, <<>>, "lexBangEqual")
        ELSE emit(l, "Bang", "lexStart")

lexBangEqual(l) == emit(next(l).l, "BangEq", "lexStart")

lexEqual(l0) ==
    LET l == next(l0).l
    IN  IF peek(l) = "=" THEN Result(l, <<>>, "lexDoubleEqual")
        ELSE emit(l, "Eq", "lexStart")

lexDoubleEqual(l) == emit(next(l).l, "DoubleEq", "lexStart")

lexGreaterThan(l0) ==
    LET l == next(l0).l
    IN  IF peek(l) = "=" THEN Result(l, <<>>, "lexGreaterThanEqual")
        ELSE emit(l, "GreaterThan", "lexStart")

lexGreaterThanEqual(l) == emit(next(l).l, "GreaterThanEq", "lexStart")

lexLessThan(l0) ==
    LET l == next(l0).l
    IN  IF peek(l) = "=" THEN Result(l, <<>>, "lexLessThanEqual")
        ELSE emit(l, "LessThan", "lexStart")

lexLessThanEqual(l) == emit(next(l).l, "LessThanEq", "lexStart")

RECURSIVE untilQuote(_)
untilQuote(l) ==
    IF peek(l) # "\"" /\ ~atEOF(l) THEN untilQuote(next(l).l) ELSE l

\* Mutant: the Error token of an unterminated string starts at the opening
\* quote.
lexString_fromQuote(l0) ==
    LET l1 == next(l0).l
        l2 == untilQuote(l1)
    IN  IF atEOF(l2) THEN error(l2, l0.pos, l2.pos)
        ELSE emit(next(l2).l, "String", "lexStart")

lexString(l0) ==
    LET l1 == next(l0).l
        openingQuotePos == l1.pos
        l2 == untilQuote(l1)
    IN  IF atEOF(l2) THEN error(l2, openingQuotePos, l2.pos)
        ELSE emit(next(l2).l, "String", "lexStart")

RECURSIVE absorbDigits(_)
absorbDigits(l) == IF IsDigit(peek(l)) THEN absorbDigits(next(l).l) ELSE l

RECURSIVE numberLoop(_)
numberLoop(l) ==
    IF ~IsDigit(peek(l)) THEN l
    ELSE LET l1 == next(l).l
             n2 == next(l1)
             l3 == IF n2.r = "." /\ IsDigit(peek(n2.l))
                   THEN absorbDigits(next(n2.l).l)
                   ELSE n2.l
         IN  numberLoop(backup(l3))

lexNumber(l) == emit(numberLoop(l), "Number", "lexStart")

RECURSIVE absorbAlphaNumeric(_)
absorbAlphaNumeric(l) ==
    IF isAlphaNumeric(peek(l)) THEN absorbAlphaNumeric(next(l).l) ELSE l

lexIdent(l0) ==
    LET l == absorbAlphaNumeric(next(l0).l)
        text == SubSeq(l.src, l.start + 1, l.pos)
    IN  emit(l, Keyword(text), "lexStart")

\* Mutant: the bad character is skipped without being consumed.
lexUnexpectedChar_stuck(l0) == Result(l0, <<>>, "lexStart")

\* Mutant: the Error token is sent and the scan carries on.
lexUnexpectedChar_continue(l0) ==
    LET l == next(l0).l
    IN  Result(l, <<Token("Error", l.pos - l.width, l.pos)>>, "lexStart")

lexUnexpectedChar(l0) ==
    LET l == next(l0).l
    IN  Result(l, <<Token("Error", l.pos - l.width, l.pos)>>, "nil")

\* The state function named by a value of the variable state.
Apply(fn, l) ==
    CASE fn = "lexStart" -> lexStart(l)
      [] fn = "lexOpenParen" -> lexOpenParen(l)
      [] fn = "lexCloseParen" -> lexCloseParen(l)
      [] fn = "lexOpenBrace" -> lexOpenBrace(l)
      [] fn = "lexCloseBrace" -> lexCloseBrace(l)
      [] fn = "lexComma" -> lexComma(l)
      [] fn = "lexDot" -> lexDot(l)
      [] fn = "lexMinus" -> lexMinus(l)
      [] fn = "lexPlus" -> lexPlus(l)
      [] fn = "lexSemiColon" -> lexSemiColon(l)
      [] fn = "lexForwardSlash" -> lexForwardSlash(l)
      [] fn = "lexStar" -> lexStar(l)
      [] fn = "lexBang" -> lexBang(l)
      [] fn = "lexBangEqual" -> lexBangEqual(l)
      [] fn = "lexEqual" -> lexEqual(l)
      [] fn = "lexDoubleEqual" -> lexDoubleEqual(l)
      [] fn = "lexGreaterThan" -> lexGreaterThan(l)
      [] fn = "lexGreaterThanEqual" -> lexGreaterThanEqual(l)
      [] fn = "lexLessThan" -> lexLessThan(l)
      [] fn = "lexLessThanEqual" -> lexLessThanEqual(l)
      [] fn = "lexString" -> lexString(l)
      [] fn = "lexNumber" -> lexNumber(l)
      [] fn = "lexIdent" -> lexIdent(l)
      [] fn = "lexUnexpectedChar" -> lexUnexpectedChar(l)

StateFns ==
    {"lexStart", "lexOpenParen", "lexCloseParen", "lexOpenBrace", "lexCloseBrace",
     "lexComma", "lexDot", "lexMinus", "lexPlus", "lexSemiColon", "lexForwardSlash",
     "lexStar", "lexBang", "lexBangEqual", "lexEqual", "lexDoubleEqual",
     "lexGreaterThan", "lexGreaterThanEqual", "lexLessThan", "lexLessThanEqual",
     "lexString", "lexNumber", "lexIdent", "lexUnexpectedChar"}

\* One iteration of the loop in run, c holding the lexer, the tokens sent so
\* far and the state function to call: nothing once the state is nil.
runStep(c) ==
    IF c.next = "nil" THEN c
    ELSE With(Apply(c.next, c.l), LAMBDA res :
             Result(res.l, c.emit \o res.emit, res.next))

\* n iterations of the loop (n is halved so that long sources are evaluated
\* without deep nesting).
RECURSIVE runLoop(_, _)
runLoop(c, n) ==
    IF n = 0 THEN c
    ELSE IF n = 1 THEN runStep(c)
    ELSE CHOOSE done \in {runLoop(half, n - n \div 2) : half \in {runLoop(c, n \div 2)}} :
             TRUE

\* run executed to completion with nobody in its way: the tokens it sends,
\* in order, the last one being the EOF token.  The loop is run for as many
\* iterations as there are bytes left, twice over, and for as many again
\* while the state is not nil.
RECURSIVE runFrom(_, _)
runFrom(fn, l) ==
    With(runLoop(Result(l, <<>>, fn), 2 * (Len(l.src) - l.pos) + 2), LAMBDA c :
        IF c.next = "nil" THEN Append(c.emit, Token("EOF", c.l.pos, c.l.pos))
        ELSE c.emit \o runFrom(c.next, c.l))

run(s) == runFrom("lexStart", NewLexer(s))

(***************************************************************************)
(* token: classification of tokens for the parser.                         *)
(***************************************************************************)
PrecedenceMin == 0

PrecedenceEquals == 1

PrecedenceComp == 2

PrecedenceAddSubtract == 3

PrecedenceMulDivide == 4

PrecedenceUnary == 5

PrecedenceMax == 6

Is(tok, kind) == tok.Kind = kind

IsBinaryOp(tok) ==
    tok.Kind \in {"Or", "And", "DoubleEq", "BangEq", "LessThan", "LessThanEq",
                  "GreaterThan", "GreaterThanEq", "Plus", "Minus", "Star", "ForwardSlash"}

\* Mutant: '*' and '/' bind no tighter than '+' and '-'.
Precedence_flat(tok) ==
    CASE tok.Kind \in {"DoubleEq", "BangEq"} -> PrecedenceEquals
      [] tok.Kind \in {"LessThan", "LessThanEq", "GreaterThan", "GreaterThanEq", "Or", "And"}
            -> PrecedenceComp
      [] tok.Kind \in {"Plus", "Minus", "Star", "ForwardSlash"} -> PrecedenceAddSubtract
      [] OTHER -> PrecedenceMin

Precedence(tok) ==
    CASE tok.Kind \in {"DoubleEq", "BangEq"} -> PrecedenceEquals
      [] tok.Kind \in {"LessThan", "LessThanEq", "GreaterThan", "GreaterThanEq", "Or", "And"}
            -> PrecedenceComp
      [] tok.Kind \in {"Plus", "Minus"} -> PrecedenceAddSubtract
      [] tok.Kind \in {"Star", "ForwardSlash"} -> PrecedenceMulDivide
      [] OTHER -> PrecedenceMin

(***************************************************************************)
(* float64.  A finite value is sign * n / d in lowest terms (zero keeps    *)
(* its sign), the others are the two infinities and NaN.  Rounding is not  *)
(* modelled: results are exact.                                            *)
(***************************************************************************)
RECURSIVE GCD(_, _)
GCD(a, b) == IF b = 0 THEN a ELSE GCD(b, a % b)

Fin(sign, n, d) ==
    LET g == GCD(n, d) IN [k |-> "fin", s |-> sign, n |-> n \div g, d |-> d \div g]

Inf(sign) == [k |-> "inf", s |-> sign, n |-> 0, d |-> 1]

NaN == [k |-> "nan", s |-> 1, n |-> 0, d |-> 1]

Zero == Fin(1, 0, 1)

FNeg(x) == IF x.k = "nan" THEN x ELSE [x EXCEPT !.s = -x.s]

FIsZero(x) == x.k = "fin" /\ x.n = 0

\* The exact sum of two finite values; a zero sum is +0 unless both are -0.
FAddFin(x, y) ==
    LET num == x.s * x.n * y.d + y.s * y.n * x.d
        den == x.d * y.d
    IN  IF num > 0 THEN Fin(1, num, den)
        ELSE IF num < 0 THEN Fin(-1, -num, den)
        ELSE IF FIsZero(x) /\ FIsZero(y) /\ x.s = -1 /\ y.s = -1 THEN Fin(-1, 0, 1)
        ELSE Zero

FAdd(x, y) ==
    IF x.k = "nan" \/ y.k = "nan" THEN NaN
    ELSE IF x.k = "inf" /\ y.k = "inf" THEN (IF x.s = y.s THEN x ELSE NaN)
    ELSE IF x.k = "inf" THEN x
    ELSE IF y.k = "inf" THEN y
    ELSE FAddFin(x, y)

FSub(x, y) == FAdd(x, FNeg(y))

FMul(x, y) ==
    IF x.k = "nan" \/ y.k = "nan" THEN NaN
    ELSE IF (x.k = "inf" /\ FIsZero(y)) \/ (FIsZero(x) /\ y.k = "inf") THEN NaN
    ELSE IF x.k = "inf" \/ y.k = "inf" THEN Inf(x.s * y.s)
    ELSE Fin(x.s * y.s, x.n * y.n, x.d * y.d)

FDiv(x, y) ==
    IF x.k = "nan" \/ y.k = "nan" THEN NaN
    ELSE IF x.k = "inf" /\ y.k = "inf" THEN NaN
    ELSE IF FIsZero(x) /\ FIsZero(y) THEN NaN
    ELSE IF x.k = "inf" THEN Inf(x.s * y.s)
    ELSE IF y.k = "inf" THEN Fin(x.s * y.s, 0, 1)
    ELSE IF FIsZero(y) THEN Inf(x.s * y.s)
    ELSE Fin(x.s * y.s, x.n * y.d, x.d * y.n)

\* x == y on float64: NaN equals nothing, -0 equals +0.
FEq(x, y) ==
    /\ x.k # "nan"
    /\ y.k # "nan"
    /\ \/ FIsZero(x) /\ FIsZero(y)
       \/ x = y

FLt(x, y) ==
    /\ x.k # "nan"
    /\ y.k # "nan"
    /\ ~FEq(x, y)
    /\ IF x.k = "inf" THEN x.s = -1
       ELSE IF y.k = "inf" THEN y.s = 1
       ELSE x.s * x.n * y.d < y.s * y.n * x.d

FLe(x, y) == FLt(x, y) \/ FEq(x, y)

(***************************************************************************)
(* strconv.                                                                *)
(***************************************************************************)
DigitValue(c) ==
    CASE c = "0" -> 0 [] c = "1" -> 1 [] c = "2" -> 2 [] c = "3" -> 3 [] c = "4" -> 4
      [] c = "5" -> 5 [] c = "6" -> 6 [] c = "7" -> 7 [] c = "8" -> 8 [] c = "9" -> 9

RECURSIVE DecimalValue(_)
DecimalValue(ds) ==
    IF ds = <<>> THEN 0
    ELSE 10 * DecimalValue(SubSeq(ds, 1, Len(ds) - 1)) + DigitValue(ds[Len(ds)])

RECURSIVE Pow10(_)
Pow10(k) == IF k = 0 THEN 1 ELSE 10 * Pow10(k - 1)

AllDigits(ds) == ds # <<>> /\ \A k \in DOMAIN ds : ds[k] \in Digits

\* strconv.ParseFloat on a Number lexeme (digits and dots): digits, or
\* digits '.' digits; anything else is a syntax error with value 0.
ParseFloat(lexeme) ==
    LET dots == {k \in DOMAIN lexeme : lexeme[k] = "."}
    IN  IF dots = {} /\ AllDigits(lexeme)
        THEN [v |-> Fin(1, DecimalValue(lexeme), 1), ok |-> TRUE]
        ELSE IF Cardinality(dots) = 1
        THEN LET k == CHOOSE j \in dots : TRUE
                 int == SubSeq(lexeme, 1, k - 1)
                 frac == SubSeq(lexeme, k + 1, Len(lexeme))
             IN  IF AllDigits(int) /\ AllDigits(frac)
                 THEN [v |-> Fin(1, DecimalValue(int \o frac), Pow10(Len(frac))), ok |-> TRUE]
                 ELSE [v |-> Zero, ok |-> FALSE]
        ELSE [v |-> Zero, ok |-> FALSE]

\* strconv.ParseBool on the lexeme of a True or False token.
ParseBool(lexeme) ==
    IF lexeme = KwTrue THEN [v |-> TRUE, ok |-> TRUE]
    ELSE IF lexeme = KwFalse THEN [v |-> FALSE, ok |-> TRUE]
    ELSE [v |-> FALSE, ok |-> FALSE]

\* strconv.Unquote on a String lexeme: the text between the two quotes.  A
\* raw newline or a backslash that starts no escape makes it fail (the
\* modelled bytes hold no escape sequence); a byte that is not valid UTF-8
\* comes back as U+FFFD.
Unquote(lexeme) ==
    LET inner == SubSeq(lexeme, 2, Len(lexeme) - 1)
    IN  IF Len(lexeme) < 2 \/ lexeme[1] # "\"" \/ lexeme[Len(lexeme)] # "\""
        THEN [v |-> <<>>, ok |-> FALSE]
        ELSE IF \E k \in DOMAIN inner : inner[k] \in {"\n", "\\"}
        THEN [v |-> <<>>, ok |-> FALSE]
        ELSE [v |-> [k \in DOMAIN inner |->
                        IF \/ inner[k] = ContByte /\ (k = 1 \/ inner[k - 1] # LeadByte)
                           \/ inner[k] = LeadByte /\ (k = Len(inner) \/ inner[k + 1] # ContByte)
                        THEN "U+FFFD" ELSE inner[k]],
              ok |-> TRUE]

(***************************************************************************)
(* ast: nodes are records tagged by their Go type; NilNode is a nil        *)
(* interface value.                                                        *)
(***************************************************************************)
NilNode == [type |-> "nil"]

(***************************************************************************)
(* parser.  The Parser struct is a record; toks is the stream its          *)
(* tokeniser delivers and n the number of NextToken calls made so far.     *)
(* Every parse method returns the parser after it (p) and its node.        *)
(***************************************************************************)
\* p.tokeniser.NextToken(): the next token of the stream, the zero Token
\* once the channel is closed and drained.
tokeniserNextToken(p) == IF p.n < Len(p.toks) THEN p.toks[p.n + 1] ELSE ZeroToken

advance(p) ==
    [p EXCEPT !.current = p.next, !.next = tokeniserNextToken(p), !.n = p.n + 1]

NewParser(name, s) ==
    advance(advance([name |-> name, src |-> s, toks |-> run(s), n |-> 0, errs |-> <<>>,
                     current |-> ZeroToken, next |-> ZeroToken]))

Lexeme(p, tok) == SubSeq(p.src, tok.Start + 1, tok.End)

\* Mutant: the column is that of the start of the current token, whatever
\* the next token is.
position_start(p) ==
    LET newlines == {k \in 0..(Len(p.src) - 1) : k < p.current.Start /\ p.src[k + 1] = "\n"}
        lastNewLineOffset ==
            IF newlines = {} THEN 0
            ELSE 1 + CHOOSE k \in newlines : \A j \in newlines : j <= k
    IN  [line |-> 1 + Cardinality(newlines), col |-> 1 + p.current.Start - lastNewLineOffset]

\* position: the newlines before the current token give the line, the
\* offset after the last of them the column.
position(p) ==
    LET newlines == {k \in 0..(Len(p.src) - 1) : k < p.current.Start /\ p.src[k + 1] = "\n"}
        lastNewLineOffset ==
            IF newlines = {} THEN 0
            ELSE 1 + CHOOSE k \in newlines : \A j \in newlines : j <= k
        pos == IF Is(p.next, "EOF") THEN p.current.End ELSE p.current.Start
    IN  [line |-> 1 + Cardinality(newlines), col |-> 1 + pos - lastNewLineOffset]

syntaxError(p, msg) ==
    [p EXCEPT !.errs = Append(p.errs,
        [File |-> p.name, Msg |-> msg, Token |-> p.current,
         Line |-> position(p).line, Col |-> position(p).col])]

\* Mutant: a token of another kind is let through without an error.
expect_lenient(p, kind) == IF Is(p.next, kind) THEN advance(p) ELSE p

expect(p, kind) ==
    IF Is(p.next, kind) THEN advance(p)
    ELSE IF Is(p.next, "EOF") THEN syntaxError(p, <<"expected", kind, "got", p.next.Kind>>)
    ELSE syntaxError(p, <<"expected", kind, "got", p.next.Kind, Lexeme(p, p.next)>>)

Node(p, node) == [p |-> p, node |-> node]

parseIdent(p) ==
    Node(p, [type |-> "Ident", Name |-> Lexeme(p, p.current), Tok |-> p.current])

parseNumber(p) ==
    LET f == ParseFloat(Lexeme(p, p.current))
    IN  Node(IF f.ok THEN p ELSE syntaxError(p, <<"invalid number literal", Lexeme(p, p.current)>>),
             [type |-> "Number", Value |-> f.v, Tok |-> p.current])

parseBool(p) ==
    LET b == ParseBool(Lexeme(p, p.current))
    IN  Node(IF b.ok THEN p ELSE syntaxError(p, <<"invalid boolean literal", Lexeme(p, p.current)>>),
             [type |-> "Bool", Value |-> b.v, Tok |-> p.current])

parseString(p) ==
    LET u == Unquote(Lexeme(p, p.current))
    IN  Node(IF u.ok THEN p ELSE syntaxError(p, <<"invalid string literal", Lexeme(p, p.current)>>),
             [type |-> "String", Value |-> u.v, Tok |-> p.current])

RECURSIVE parseExpression(_, _)
RECURSIVE binaryLoop(_, _, _)
RECURSIVE parseUnaryExpression(_)
RECURSIVE parseBinaryExpression(_, _)
RECURSIVE parseGroupedExpression(_)

\* The for loop of parseExpression: next is no ';' and binds tighter than
\* the caller's precedence.
binaryLoop(p, expression, precedence) ==
    IF ~Is(p.next, "SemiColon") /\ Precedence(p.next) > precedence
    THEN LET p1 == advance(p)
         IN  IF IsBinaryOp(p1.current)
             THEN With(parseBinaryExpression(p1, expression),
                       LAMBDA b : binaryLoop(b.p, b.node, precedence))
             ELSE Node(syntaxError(p1, <<"Invalid binary operator", p1.current.Kind>>), NilNode)
    ELSE Node(p, expression)

parseExpression(p, precedence) ==
    LET kind == p.current.Kind
    IN  IF kind \notin {"Ident", "Number", "String", "Bang", "Minus", "True", "False", "OpenParen"}
        THEN Node(syntaxError(p, <<"Unhandled token in parseExpression (unary switch)", kind>>),
                  NilNode)
        ELSE With(CASE kind = "Ident" -> parseIdent(p)
                    [] kind = "Number" -> parseNumber(p)
                    [] kind = "String" -> parseString(p)
                    [] kind \in {"Bang", "Minus"} -> parseUnaryExpression(p)
                    [] kind \in {"True", "False"} -> parseBool(p)
                    [] kind = "OpenParen" -> parseGroupedExpression(p),
                  LAMBDA first : binaryLoop(first.p, first.node, precedence))

parseUnaryExpression(p) ==
    With(parseExpression(advance(p), PrecedenceUnary), LAMBDA operand :
        Node(operand.p, [type |-> "UnaryExpression", Value |-> operand.node, Tok |-> p.current]))

parseBinaryExpression(p, left) ==
    With(parseExpression(advance(p), Precedence(p.current)), LAMBDA right :
        Node(right.p, [type |-> "BinaryExpression", Left |-> left, Right |-> right.node,
                       Op |-> p.current]))

parseGroupedExpression(p) ==
    With(parseExpression(advance(p), PrecedenceMin), LAMBDA inner :
        With(expect(inner.p, "CloseParen"), LAMBDA p1 :
            Node(p1, [type |-> "GroupedExpression", Value |-> inner.node, LParen |-> p.current,
                      RParen |-> p1.current])))

parseVarDecl(p) ==
    With(expect(p, "Ident"), LAMBDA p1 :
        With(parseExpression(advance(expect(p1, "Eq")), PrecedenceMin), LAMBDA value :
            Node(value.p, [type |-> "VarDeclaration", Value |-> value.node,
                           Ident |-> parseIdent(p1).node])))

parseDeclaration(p) ==
    IF p.current.Kind = "Var" THEN parseVarDecl(p)
    ELSE Node(syntaxError(p, <<"Unhandled token in parseVarDeclaration", p.current.Kind>>), NilNode)

parseReturnStatement(p) ==
    With(parseExpression(advance(p), PrecedenceMin), LAMBDA value :
        Node(expect(value.p, "SemiColon"),
             [type |-> "ReturnStatement", Value |-> value.node, Tok |-> p.current]))

parsePrintStatement(p) ==
    With(parseExpression(advance(p), PrecedenceMin), LAMBDA value :
        Node(expect(value.p, "SemiColon"),
             [type |-> "PrintStatement", Value |-> value.node, Tok |-> p.current]))

parseExpressionStatement(p) ==
    With(parseExpression(p, PrecedenceMin), LAMBDA value :
        Node(expect(value.p, "SemiColon"), [type |-> "ExpressionStatement", Value |-> value.node]))

parseDeclarationStatement(p) ==
    With(parseDeclaration(p), LAMBDA value :
        Node(expect(value.p, "SemiColon"), [type |-> "DeclarationStatement", Value |-> value.node]))

parseStatement(p) ==
    CASE p.current.Kind = "Return" -> parseReturnStatement(p)
      [] p.current.Kind = "Print" -> parsePrintStatement(p)
      [] p.current.Kind = "Var" -> parseDeclarationStatement(p)
      [] OTHER -> parseExpressionStatement(p)

\* Mutant: the loop of Parse does not step over the last token of the
\* statement.
parseIteration_noAdvance(p, statements) ==
    With(parseStatement(p), LAMBDA st :
        [p |-> st.p,
         statements |-> IF st.node # NilNode /\ Len(st.p.errs) = 0
                        THEN Append(statements, st.node)
                        ELSE statements])

\* One iteration of the loop of Parse: the parser and the statements after it.
parseIteration(p, statements) ==
    With(parseStatement(p), LAMBDA st :
        [p |-> advance(st.p),
         statements |-> IF st.node # NilNode /\ Len(st.p.errs) = 0
                        THEN Append(statements, st.node)
                        ELSE statements])

\* Parse as a whole: what it returns for a fresh parser (err is errors.Join
\* of the recorded errors: nil, here <<>>, exactly when there are none).
RECURSIVE parseFrom(_, _)
parseFrom(p, statements) ==
    IF Is(p.current, "EOF")
    THEN [Statements |-> statements, err |-> p.errs]
    ELSE With(parseIteration(p, statements), LAMBDA it : parseFrom(it.p, it.statements))

Parse(p) == parseFrom(p, <<>>)

(***************************************************************************)
(* The scanner goroutine and its consumer.                                 *)
(***************************************************************************)
SeqsUpTo(S, n) == UNION {[1..k -> S] : k \in 0..n}

\* The bytes the scanned sources are made of.  The bytes of CoreBytes occur
\* in sources of every length up to MaxSrcLen; the other bytes, each scanned
\* by a state function of its own that has the shape of lexOpenParen or
\* lexLessThan, occur in the sources of length below MaxSrcLen.
LexAlphabet ==
    {"(", ")", "{", "}", ",", ".", "-", "+", ";", "/", "*", "!", "=", ">", "<",
     "\"", "1", "o", "r", " ", "\n", "NUL", "#", "xC3", "xA9"}

CoreBytes ==
    {"(", ".", "/", "!", "=", "<", "\"", "1", "o", "r", " ", "\n", "NUL", "#",
     "xC3", "xA9"}

\* Number literals and what surrounds them: the texts of digits and dots.
NumberSources == SeqsUpTo({"1", "."}, MaxNumberLen)

\* A source of more tokens than the channel holds.
LongSource == [k \in 1..(bufferSize + 1) |-> "("]

LexSources ==
    SeqsUpTo(CoreBytes, MaxSrcLen) \cup SeqsUpTo(LexAlphabet, MaxSrcLen - 1)
        \cup NumberSources \cup {LongSource}

\* The sources on which the interleavings of the goroutine and its consumer
\* are compared with the synchronous run: every byte of the alphabet, the
\* texts of several tokens, and the source that fills the channel.
ChannelSources ==
    SeqsUpTo(LexAlphabet, MaxSrcLen - 1) \cup NumberSources \cup {LongSource}

NoParser == parser = [src |-> <<>>] /\ prog = <<>> /\ pstate = "none"

NoInterpreter == envs = <<>> /\ interps = <<>> /\ stdout = <<>> /\ log = <<>>

\* lexer.New: the struct is built and `go l.run()` starts the state machine
\* at lexStart.
New(s) ==
    /\ lexer = NewLexer(s)
    /\ tokens = <<>>
    /\ closed = FALSE
    /\ state = "lexStart"
    /\ got = <<>>

InitLex ==
    /\ \E s \in LexSources : New(s)
    /\ NoParser
    /\ NoInterpreter

InitChannel ==
    /\ \E s \in ChannelSources : New(s)
    /\ NoParser
    /\ NoInterpreter

\* Mutant: the send never blocks, the channel grows as needed.
RunState_unbounded(fn) ==
    /\ state = fn
    /\ \E res \in {Apply(fn, lexer)} :
           /\ lexer' = res.l
           /\ tokens' = tokens \o res.emit
           /\ state' = res.next
    /\ UNCHANGED <<closed, got, parseVars, evalVars>>

\* One iteration of the loop in run: call the state function fn.  A send on
\* the full channel blocks, so a function that sends can only finish when
\* the channel has room.
RunState(fn) ==
    /\ state = fn
    /\ \E res \in {Apply(fn, lexer)} :
           /\ Len(tokens) + Len(res.emit) <= bufferSize
           /\ lexer' = res.l
           /\ tokens' = tokens \o res.emit
           /\ state' = res.next
    /\ UNCHANGED <<closed, got, parseVars, evalVars>>

Run_lexStart == RunState("lexStart")

Run_lexOpenParen == RunState("lexOpenParen")

Run_lexCloseParen == RunState("lexCloseParen")

Run_lexOpenBrace == RunState("lexOpenBrace")

Run_lexCloseBrace == RunState("lexCloseBrace")

Run_lexComma == RunState("lexComma")

Run_lexDot == RunState("lexDot")

Run_lexMinus == RunState("lexMinus")

Run_lexPlus == RunState("lexPlus")

Run_lexSemiColon == RunState("lexSemiColon")

Run_lexForwardSlash == RunState("lexForwardSlash")

Run_lexStar == RunState("lexStar")

Run_lexBang == RunState("lexBang")

Run_lexBangEqual == RunState("lexBangEqual")

Run_lexEqual == RunState("lexEqual")

Run_lexDoubleEqual == RunState("lexDoubleEqual")

Run_lexGreaterThan == RunState("lexGreaterThan")

Run_lexGreaterThanEqual == RunState("lexGreaterThanEqual")

Run_lexLessThan == RunState("lexLessThan")

Run_lexLessThanEqual == RunState("lexLessThanEqual")

Run_lexString == RunState("lexString")

Run_lexNumber == RunState("lexNumber")

Run_lexIdent == RunState("lexIdent")

Run_lexUnexpectedChar == RunState("lexUnexpectedChar")

\* Mutant: the EOF token is placed where the last token started.
Run_sendEOF_atStart ==
    /\ state = "nil"
    /\ Len(tokens) < bufferSize
    /\ tokens' = Append(tokens, Token("EOF", lexer.start, lexer.start))
    /\ state' = "close"
    /\ UNCHANGED <<lexer, closed, got, parseVars, evalVars>>

\* run, after the loop: send the EOF token ...
Run_sendEOF ==
    /\ state = "nil"
    /\ Len(tokens) < bufferSize
    /\ tokens' = Append(tokens, Token("EOF", lexer.pos, lexer.pos))
    /\ state' = "close"
    /\ UNCHANGED <<lexer, closed, got, parseVars, evalVars>>

\* ... and close the channel; the goroutine ends.
Run_close ==
    /\ state = "close"
    /\ closed' = TRUE
    /\ state' = "done"
    /\ UNCHANGED <<lexer, tokens, got, parseVars, evalVars>>

IsTerminal(tok) == tok.Kind \in {"EOF", "Error"}

EOFsIn(s) == Cardinality({k \in DOMAIN s : s[k].Kind = "EOF"})

\* Mutant: the receive takes the token sent last, not the one sent first.
NextToken_newest ==
    /\ EOFsIn(got) <= MaxTail
    /\ Len(got) <= Len(lexer.src) + MaxTail + 1
    /\ \/ /\ tokens # <<>>
          /\ got' = Append(got, tokens[Len(tokens)])
          /\ tokens' = SubSeq(tokens, 1, Len(tokens) - 1)
       \/ /\ tokens = <<>>
          /\ closed
          /\ got' = Append(got, ZeroToken)
          /\ tokens' = tokens
    /\ UNCHANGED <<lexer, state, closed, parseVars, evalVars>>

\* Lexer.NextToken: receive from the channel.  The receive blocks while the
\* channel is empty and open; on a closed, drained channel it yields the zero
\* Token.  The consumer makes MaxTail further calls after its first EOF.
NextToken ==
    /\ EOFsIn(got) <= MaxTail
    /\ Len(got) <= Len(lexer.src) + MaxTail + 1
    /\ \/ /\ tokens # <<>>
          /\ got' = Append(got, Head(tokens))
          /\ tokens' = Tail(tokens)
       \/ /\ tokens = <<>>
          /\ closed
          /\ got' = Append(got, ZeroToken)
          /\ tokens' = tokens
    /\ UNCHANGED <<lexer, state, closed, parseVars, evalVars>>

Scanner ==
    \/ Run_lexStart
    \/ Run_lexOpenParen
    \/ Run_lexCloseParen
    \/ Run_lexOpenBrace
    \/ Run_lexCloseBrace
    \/ Run_lexComma
    \/ Run_lexDot
    \/ Run_lexMinus
    \/ Run_lexPlus
    \/ Run_lexSemiColon
    \/ Run_lexForwardSlash
    \/ Run_lexStar
    \/ Run_lexBang
    \/ Run_lexBangEqual
    \/ Run_lexEqual
    \/ Run_lexDoubleEqual
    \/ Run_lexGreaterThan
    \/ Run_lexGreaterThanEqual
    \/ Run_lexLessThan
    \/ Run_lexLessThanEqual
    \/ Run_lexString
    \/ Run_lexNumber
    \/ Run_lexIdent
    \/ Run_lexUnexpectedChar
    \/ Run_sendEOF
    \/ Run_close

NextLex == Scanner \/ NextToken

SpecLex == InitLex /\ [][NextLex]_vars

SpecChannel == InitChannel /\ [][NextLex]_vars

(***************************************************************************)
(* C2: for every finite input, including invalid UTF-8 and arbitrary       *)
(* bytes, the scan terminates and the stream ends in EOF: every call of a  *)
(* state function strictly decreases the measure (bytes left, about to     *)
(* call lexStart), which is never negative, so run leaves its loop after   *)
(* finitely many calls; and once run has returned, the stream handed to    *)
(* NextToken is at most len(src) non-EOF tokens followed by an EOF.        *)
(***************************************************************************)
Measure(l, st) == 2 * (Len(l.src) - l.pos) + (IF st = "lexStart" THEN 1 ELSE 0)

Progress ==
    state \in StateFns
        => \E res \in {Apply(state, lexer)} :
               /\ Measure(res.l, res.next) >= 0
               /\ Measure(res.l, res.next) < Measure(lexer, state)

EndsInEOF ==
    state = "done"
        => \E k \in DOMAIN (got \o tokens) :
              /\ (got \o tokens)[k].Kind = "EOF"
              /\ k <= Len(lexer.src) + 1
              /\ \A j \in 1..(k - 1) : (got \o tokens)[j].Kind # "EOF"

C2_Terminates == Progress /\ EndsInEOF

\* An input holding a byte that is not valid UTF-8 was scanned to its EOF.
C2_Witness ==
    /\ \E k \in DOMAIN lexer.src : lexer.src[k] = ContByte
    /\ Len(got) >= 2
    /\ got[Len(got)].Kind = "EOF"
    /\ got[1].Kind # "EOF"

(***************************************************************************)
(* C3: once NextToken has returned a token of kind EOF or Error, every     *)
(* later call returns a token of kind EOF or Error.                        *)
(***************************************************************************)
C3_TerminalTail ==
    \A j, k \in DOMAIN got : j < k /\ IsTerminal(got[j]) => IsTerminal(got[k])

\* An Error token was returned, and three more calls were made after it.
C3_Witness ==
    /\ Len(got) >= 4
    /\ got[Len(got) - 3].Kind = "Error"
    /\ closed

(***************************************************************************)
(* Parsing a source text: parser.New, then Parse one loop iteration at a   *)
(* time.                                                                   *)
(***************************************************************************)
MaxStmtToks == 4    \* most lexemes of a source made of statement lexemes
MaxExprToks == 5    \* most lexemes of an expression over all the operators
MaxGroupToks == 7   \* most lexemes of an expression over + * - and groups
MaxBrokenToks == 3  \* most lexemes of a source made of errors and parentheses

\* The lexemes of a source are written one blank apart.
RECURSIVE Join(_)
Join(words) ==
    IF words = <<>> THEN <<>>
    ELSE IF Len(words) = 1 THEN words[1]
    ELSE words[1] \o <<" ">> \o Join(Tail(words))

StmtWords ==
    {<<"a">>, <<"1">>, <<";">>, <<"+">>, <<"(">>, <<")">>, <<"=">>, KwVar, KwPrint, KwReturn}

ExprWords ==
    {<<"a">>, <<"=", "=">>, <<"<">>, <<"+">>, <<"*">>, <<"-">>, <<"!">>, <<"(">>, <<")">>}

GroupWords == {<<"a">>, <<"+">>, <<"*">>, <<"-">>, <<"(">>, <<")">>}

\* The sequences of n lexemes of W that can start an expression: operands
\* and operators alternate and no ')' lacks its '('.  operand tells whether
\* an operand has to come next, depth counts the groups still open.
Extend(W, q) ==
    {[w |-> Append(q.w, x),
      operand |-> x \notin {<<"a">>, <<")">>},
      depth |-> q.depth + (IF x = <<"(">> THEN 1 ELSE IF x = <<")">> THEN -1 ELSE 0)] :
        x \in {y \in W : IF q.operand THEN y \in {<<"a">>, <<"(">>, <<"-">>, <<"!">>}
                         ELSE y \notin {<<"a">>, <<"(">>, <<"!">>} /\ (y = <<")">> => q.depth > 0)}}

RECURSIVE Prefixes(_, _)
Prefixes(W, n) ==
    IF n = 0 THEN {[w |-> <<>>, operand |-> TRUE, depth |-> 0]}
    ELSE UNION {Extend(W, q) : q \in Prefixes(W, n - 1)}

\* The expressions of at most n lexemes of W.
Expressions(W, n) ==
    UNION {{q.w : q \in {r \in Prefixes(W, k) : ~r.operand /\ r.depth = 0}} : k \in 1..n}

StmtSources == {Join(w) : w \in SeqsUpTo(StmtWords, MaxStmtToks)}

ExprSources ==
    {Join(Append(w, <<";">>)) :
        w \in Expressions(ExprWords, MaxExprToks) \cup Expressions(GroupWords, MaxGroupToks)}

\* The joins of the lexemes with a blank or a line break between each two.
RECURSIVE JoinAny(_)
JoinAny(words) ==
    IF Len(words) = 1 THEN {words[1]}
    ELSE {words[1] \o sep \o more : sep \in {<<" ">>, <<"\n">>}, more \in JoinAny(Tail(words))}

\* Statements of each kind with no ';'.
OpenStatements ==
    {<<KwVar, <<"a">>, <<"=">>, <<"1", "2">>>>, <<KwPrint, <<"1", "2">>>>,
     <<KwReturn, <<"a">>>>, <<<<"a">>, <<"+">>, <<"1", "2">>>>,
     <<<<"(">>, <<"a">>, <<")">>>>, <<KwPrint, <<"\"", "\n", "\"">>>>}

\* The statements over one or more lines, after and before an optional line
\* break, and the same with their ';'.
LineSources ==
    {pre \o j \o post \o end :
        pre \in {<<>>, <<"\n">>}, j \in UNION {JoinAny(w) : w \in OpenStatements},
        post \in {<<>>, <<"\n">>}, end \in {<<>>, <<";">>}}

\* Sources made of errors and of unbalanced parentheses.
BrokenWords == {<<"#">>, <<"\"">>, <<"(">>, <<")">>, <<"a">>, <<"+">>}

BrokenSources == {Join(w) : w \in SeqsUpTo(BrokenWords, MaxBrokenToks)}

ParseSources == StmtSources \cup ExprSources \cup LineSources \cup BrokenSources

InitParse ==
    /\ \E s \in ParseSources : parser = NewParser("src", s)
    /\ prog = <<>>
    /\ pstate = "loop"
    /\ lexer = NewLexer(<<>>) /\ state = "none" /\ tokens = <<>> /\ closed = FALSE /\ got = <<>>
    /\ NoInterpreter

\* Parse, one iteration of `for !p.current.Is(token.EOF)`.
Parse_loop ==
    /\ pstate = "loop"
    /\ ~Is(parser.current, "EOF")
    /\ \E it \in {parseIteration(parser, prog)} : parser' = it.p /\ prog' = it.statements
    /\ UNCHANGED <<pstate, lexVars, evalVars>>

\* Parse, `return prog, errors.Join(p.errs...)`.
Parse_return ==
    /\ pstate = "loop"
    /\ Is(parser.current, "EOF")
    /\ pstate' = "returned"
    /\ UNCHANGED <<parser, prog, lexVars, evalVars>>

NextParse == Parse_loop \/ Parse_return

SpecParse == InitParse /\ [][NextParse]_vars

(***************************************************************************)
(* C1: if Parse returns a non-nil error (it recorded at least one syntax   *)
(* error), the returned Program has zero statements, also when the error   *)
(* is in a statement that follows statements that parsed without error.    *)
(***************************************************************************)
C1_ErrorMeansEmptyProgram ==
    pstate = "returned" /\ parser.errs # <<>> => Len(prog) = 0

(***************************************************************************)
(* C4: for every error-free expression, the tree parseExpression builds is *)
(* the tree of the reference grammar                                       *)
(*     equality   ::= comparison (("==" | "!=") comparison)*               *)
(*     comparison ::= term (("<" | "<=" | ">" | ">=" | or | and) term)*    *)
(*     term       ::= factor (("+" | "-") factor)*                         *)
(*     factor     ::= unary (("*" | "/") unary)*                           *)
(*     unary      ::= ("!" | "-") unary | primary                          *)
(*     primary    ::= literal | identifier | "(" equality ")"              *)
(* with every repetition associating to the left.                          *)
(***************************************************************************)
Leaf(tok) == [sh |-> "leaf", tok |-> tok]

Shape1(tok, a) == [sh |-> "unary", tok |-> tok, a |-> a]

Shape2(a, tok, b) == [sh |-> "binary", a |-> a, tok |-> tok, b |-> b]

ShapeG(l, a, r) == [sh |-> "group", l |-> l, a |-> a, r |-> r]

\* The tree of an ast.Expression, by its tokens.
RECURSIVE Shape(_)
Shape(node) ==
    CASE node.type \in {"Ident", "Number", "String", "Bool"} -> Leaf(node.Tok)
      [] node.type = "UnaryExpression" -> Shape1(node.Tok, Shape(node.Value))
      [] node.type = "BinaryExpression" -> Shape2(Shape(node.Left), node.Op, Shape(node.Right))
      [] node.type = "GroupedExpression" -> ShapeG(node.LParen, Shape(node.Value), node.RParen)
      [] OTHER -> [sh |-> "nil"]

RefOps(level) ==
    CASE level = 1 -> {"DoubleEq", "BangEq"}
      [] level = 2 -> {"LessThan", "LessThanEq", "GreaterThan", "GreaterThanEq", "Or", "And"}
      [] level = 3 -> {"Plus", "Minus"}
      [] level = 4 -> {"Star", "ForwardSlash"}

RefFail == [ok |-> FALSE, shape |-> [sh |-> "nil"], rest |-> <<>>]

RECURSIVE RefLevel(_, _)
RECURSIVE RefRepeat(_, _, _)
RECURSIVE RefUnary(_)

\* (op operand)* at one level, the tree so far being left.
RefRepeat(level, left, ts) ==
    IF ts # <<>> /\ ts[1].Kind \in RefOps(level)
    THEN LET r == RefLevel(level + 1, Tail(ts))
         IN  IF r.ok THEN RefRepeat(level, Shape2(left, ts[1], r.shape), r.rest) ELSE RefFail
    ELSE [ok |-> TRUE, shape |-> left, rest |-> ts]

RefLevel(level, ts) ==
    IF level = 5 THEN RefUnary(ts)
    ELSE LET l == RefLevel(level + 1, ts)
         IN  IF l.ok THEN RefRepeat(level, l.shape, l.rest) ELSE RefFail

RefUnary(ts) ==
    IF ts = <<>> THEN RefFail
    ELSE IF ts[1].Kind \in {"Bang", "Minus"}
    THEN LET u == RefUnary(Tail(ts))
         IN  IF u.ok THEN [ok |-> TRUE, shape |-> Shape1(ts[1], u.shape), rest |-> u.rest]
             ELSE RefFail
    ELSE IF ts[1].Kind \in {"Ident", "Number", "String", "True", "False"}
    THEN [ok |-> TRUE, shape |-> Leaf(ts[1]), rest |-> Tail(ts)]
    ELSE IF ts[1].Kind = "OpenParen"
    THEN LET e == RefLevel(1, Tail(ts))
         IN  IF e.ok /\ e.rest # <<>> /\ e.rest[1].Kind = "CloseParen"
             THEN [ok |-> TRUE, shape |-> ShapeG(ts[1], e.shape, e.rest[1]), rest |-> Tail(e.rest)]
             ELSE RefFail
    ELSE RefFail

C4_PrecedenceAndAssociativity ==
    /\ pstate = "returned"
    /\ parser.errs = <<>>
    /\ Len(prog) = 1
    /\ prog[1].type = "ExpressionStatement"
    => LET ref == RefLevel(1, parser.toks)
       IN  /\ ref.ok
           /\ Len(ref.rest) = 2
           /\ ref.rest[1].Kind = "SemiColon"
           /\ Shape(prog[1].Value) = ref.shape

\* `a * ( a + a ) ;` was parsed.
C4_Witness ==
    /\ pstate = "returned"
    /\ parser.errs = <<>>
    /\ Len(prog) = 1
    /\ prog[1].type = "ExpressionStatement"
    /\ prog[1].Value.type = "BinaryExpression"
    /\ prog[1].Value.Op.Kind = "Star"
    /\ prog[1].Value.Right.type = "GroupedExpression"
    /\ prog[1].Value.Right.Value.type = "BinaryExpression"
    /\ prog[1].Value.Right.Value.Op.Kind = "Plus"

(***************************************************************************)
(* types: the Lox values.  A value of the interface types.Type is a record *)
(* tagged with its dynamic type: "Number", "String", "Bool" (a types.Bool  *)
(* struct) or "*Bool" (a pointer to one); Nil is the nil interface.  The   *)
(* program makes two *Bool pointers only, True and False, and never writes *)
(* through them, so a pointer is known by the value it points to.          *)
(***************************************************************************)
KindNumber == 0

KindBool == 1

KindString == 2

Nil == [t |-> "nil"]

Number(v) == [t |-> "Number", Value |-> v]

String(v) == [t |-> "String", Value |-> v]

Bool(b) == [t |-> "Bool", Value |-> b]

True == [t |-> "*Bool", Value |-> TRUE]

False == [t |-> "*Bool", Value |-> FALSE]

\* The Kind method; Bool has it by value, so *Bool has it too.
Kind(v) ==
    CASE v.t = "Number" -> KindNumber
      [] v.t \in {"Bool", "*Bool"} -> KindBool
      [] v.t = "String" -> KindString

DigitChar(k) == CHOOSE c \in Digits : DigitValue(c) = k

RECURSIVE DecimalDigits(_)
DecimalDigits(n) ==
    IF n < 10 THEN <<DigitChar(n)>>
    ELSE DecimalDigits(n \div 10) \o <<DigitChar(n % 10)>>

\* The digits of num/den after the decimal point, den dividing a power of
\* ten (num < den).
RECURSIVE FractionDigits(_, _)
FractionDigits(num, den) ==
    IF num = 0 THEN <<>>
    ELSE <<DigitChar((10 * num) \div den)>> \o FractionDigits((10 * num) % den, den)

RECURSIVE Terminates(_)
Terminates(den) ==
    IF den = 1 THEN TRUE
    ELSE IF den % 2 = 0 THEN Terminates(den \div 2)
    ELSE IF den % 5 = 0 THEN Terminates(den \div 5)
    ELSE FALSE

\* strconv.FormatFloat(f, 'g', -1, 64) for the values written without an
\* exponent: whole numbers below 1e21 and decimal fractions from 1e-4 up.
\* Any other finite value is written as the fraction it is.
FormatFloat(f) ==
    IF f.k = "nan" THEN <<"N", "a", "N">>
    ELSE IF f.k = "inf" THEN (IF f.s = 1 THEN <<"+">> ELSE <<"-">>) \o <<"I", "n", "f">>
    ELSE (IF f.s = 1 THEN <<>> ELSE <<"-">>) \o
         (IF f.d = 1 /\ Len(DecimalDigits(f.n)) <= 21 THEN DecimalDigits(f.n)
          ELSE IF Terminates(f.d) /\ Len(DecimalDigits(f.n \div f.d)) <= 21
                  /\ f.n * Pow10(4) >= f.d
               THEN DecimalDigits(f.n \div f.d) \o <<".">> \o FractionDigits(f.n % f.d, f.d)
          ELSE <<"g">> \o DecimalDigits(f.n) \o <<"/">> \o DecimalDigits(f.d))

FormatBool(b) == IF b THEN KwTrue ELSE KwFalse

\* strconv.Quote: the string in double quotes, with `"`, `\` and the
\* control characters the sources here can hold written as escapes.
RECURSIVE QuoteBytes(_)
QuoteBytes(s) ==
    IF s = <<>> THEN <<>>
    ELSE (CASE s[1] = "\"" -> <<"\\", "\"">>
            [] s[1] = "\\" -> <<"\\", "\\">>
            [] s[1] = "\n" -> <<"\\", "n">>
            [] s[1] = "\t" -> <<"\\", "t">>
            [] s[1] = "\r" -> <<"\\", "r">>
            [] OTHER -> <<s[1]>>) \o QuoteBytes(Tail(s))

Quote(s) == <<"\"">> \o QuoteBytes(s) \o <<"\"">>

\* The String method of a non-nil value.
TypeString(v) ==
    CASE v.t = "Number" -> FormatFloat(v.Value)
      [] v.t \in {"Bool", "*Bool"} -> FormatBool(v.Value)
      [] v.t = "String" -> Quote(v.Value)

\* IsTruthy: the type switch has the cases *Bool, Number and String, and
\* panics in its default case.
IsTruthy(t) ==
    CASE t.t = "*Bool" -> [v |-> t.Value, panic |-> FALSE]
      [] t.t = "Number" -> [v |-> ~FEq(t.Value, Zero), panic |-> FALSE]
      [] t.t = "String" -> [v |-> Len(t.Value) # 0, panic |-> FALSE]
      [] OTHER -> [v |-> FALSE, panic |-> TRUE]

\* Mutant: two non-nil values of the same Kind are equal whatever they hold.
Equal_kindOnly(a, b) ==
    IF (a = Nil) # (b = Nil) THEN FALSE
    ELSE IF a = Nil /\ b = Nil THEN TRUE
    ELSE Kind(a) = Kind(b)

Equal(a, b) ==
    IF (a = Nil) # (b = Nil) THEN FALSE
    ELSE IF a = Nil /\ b = Nil THEN TRUE
    ELSE IF Kind(a) # Kind(b) THEN FALSE
    ELSE TypeString(a) = TypeString(b)

(***************************************************************************)
(* interpreter: Environment.  A *Environment is an index into the heap     *)
(* (0 is nil); the methods take the heap and the pointer.                  *)
(***************************************************************************)
NewEnvironment(name, parent) ==
    [name |-> name, parent |-> parent, values |-> [x \in {} |-> Nil]]

\* Mutant: Define reports success without storing the variable.
Define_noStore(heap, e, name, variable) ==
    IF name \in DOMAIN heap[e].values
    THEN [envs |-> heap,
          err |-> <<"variable already defined in this scope", name, heap[e].name>>]
    ELSE [envs |-> heap, err |-> <<>>]

\* Mutant: Define binds the name anew when the scope has it already.
Define_overwrite(heap, e, name, variable) ==
    [envs |-> [heap EXCEPT ![e].values =
                  [x \in DOMAIN @ \cup {name} |-> IF x = name THEN variable ELSE @[x]]],
     err |-> <<>>]

\* Mutant: Define refuses a name that any scope of the chain binds.
Define_noShadow(heap, e, name, variable) ==
    IF \E k \in DOMAIN heap : name \in DOMAIN heap[k].values
    THEN [envs |-> heap,
          err |-> <<"variable already defined in this scope", name, heap[e].name>>]
    ELSE [envs |-> [heap EXCEPT ![e].values =
                        [x \in DOMAIN @ \cup {name} |-> IF x = name THEN variable ELSE @[x]]],
          err |-> <<>>]

\* Define: the heap after it and the error (<<>> is nil).
Define(heap, e, name, variable) ==
    IF name \in DOMAIN heap[e].values
    THEN [envs |-> heap,
          err |-> <<"variable already defined in this scope", name, heap[e].name>>]
    ELSE [envs |-> [heap EXCEPT ![e].values =
                        [x \in DOMAIN @ \cup {name} |-> IF x = name THEN variable ELSE @[x]]],
          err |-> <<>>]

\* Mutant: Get looks at the scope it is called on only.
Get_localOnly(heap, e, name) ==
    IF name \in DOMAIN heap[e].values THEN [v |-> heap[e].values[name], ok |-> TRUE]
    ELSE [v |-> Nil, ok |-> FALSE]

RECURSIVE Get(_, _, _)
Get(heap, e, name) ==
    IF name \in DOMAIN heap[e].values THEN [v |-> heap[e].values[name], ok |-> TRUE]
    ELSE IF heap[e].parent # 0 THEN Get(heap, heap[e].parent, name)
    ELSE [v |-> Nil, ok |-> FALSE]

\* Mutant: a name the scope does not bind is added to it.
Assign_orDefine(heap, e, name, variable) ==
    [envs |-> [heap EXCEPT ![e].values =
                  [x \in DOMAIN @ \cup {name} |-> IF x = name THEN variable ELSE @[x]]],
     err |-> <<>>]

RECURSIVE Assign(_, _, _, _)
Assign(heap, e, name, variable) ==
    IF name \in DOMAIN heap[e].values
    THEN [envs |-> [heap EXCEPT ![e].values[name] = variable], err |-> <<>>]
    ELSE IF heap[e].parent # 0 THEN Assign(heap, heap[e].parent, name, variable)
    ELSE [envs |-> heap, err |-> <<"assignment to undefined variable", name>>]

(***************************************************************************)
(* interpreter: Interpreter.  The struct is its env pointer (both writers  *)
(* are the one stdout of the model).  What an eval method returns is the   *)
(* record Return makes: the value, the error (<<>> is nil) and the memory  *)
(* st = [envs, stdout] it leaves; a panic unwinds every caller and is the  *)
(* record Panics makes.                                                    *)
(***************************************************************************)
NewInterpreter(heap) ==
    [i |-> [env |-> Len(heap) + 1],
     envs |-> Append(heap, NewEnvironment("globals", 0))]

Return(val, err, st) == [val |-> val, err |-> err, panic |-> FALSE, st |-> st]

Panics(st) == [val |-> Nil, err |-> <<>>, panic |-> TRUE, st |-> st]

\* `x, err := f(); if err != nil { return nil, err }` and then K(x).
Try(r, K(_)) ==
    IF r.panic THEN r
    ELSE IF r.err # <<>> THEN Return(Nil, r.err, r.st)
    ELSE K(r)

checkNumeric(left, right) ==
    IF left.t # "Number"
    THEN [l |-> Number(Zero), r |-> Number(Zero),
          err |-> <<"left operand must be numeric, got", left.t>>]
    ELSE IF right.t # "Number"
    THEN [l |-> Number(Zero), r |-> Number(Zero),
          err |-> <<"right operand must be numeric, got", right.t>>]
    ELSE [l |-> left, r |-> right, err |-> <<>>]

evalBool(node) == IF node.Value THEN True ELSE False

evalNumber(node) == Number(node.Value)

evalString(node) == String(node.Value)

\* The arithmetic methods return the zero Number with an error.
evalBinarySubtract(left, right, st) ==
    With(checkNumeric(left, right), LAMBDA c :
        IF c.err # <<>> THEN Return(Number(Zero), c.err, st)
        ELSE Return(Number(FSub(c.l.Value, c.r.Value)), <<>>, st))

\* Mutant: a String on the left is concatenated with the text of whatever
\* is on the right.
evalBinaryAdd_concatAny(left, right, st) ==
    IF left.t = "String"
    THEN IF right.t # "String"
         THEN Return(String(left.Value \o TypeString(right)), <<>>, st)
         ELSE Return(String(left.Value \o right.Value), <<>>, st)
    ELSE With(checkNumeric(left, right), LAMBDA c :
             IF c.err # <<>> THEN Return(Nil, c.err, st)
             ELSE Return(Number(FAdd(c.l.Value, c.r.Value)), <<>>, st))

evalBinaryAdd(left, right, st) ==
    IF left.t = "String"
    THEN IF right.t # "String"
         THEN Return(Nil, <<"invalid types for binary add: left (String) + right", right.t>>, st)
         ELSE Return(String(left.Value \o right.Value), <<>>, st)
    ELSE With(checkNumeric(left, right), LAMBDA c :
             IF c.err # <<>> THEN Return(Nil, c.err, st)
             ELSE Return(Number(FAdd(c.l.Value, c.r.Value)), <<>>, st))

evalBinaryDivide(left, right, st) ==
    With(checkNumeric(left, right), LAMBDA c :
        IF c.err # <<>> THEN Return(Number(Zero), c.err, st)
        ELSE Return(Number(FDiv(c.l.Value, c.r.Value)), <<>>, st))

evalBinaryMultiply(left, right, st) ==
    With(checkNumeric(left, right), LAMBDA c :
        IF c.err # <<>> THEN Return(Number(Zero), c.err, st)
        ELSE Return(Number(FMul(c.l.Value, c.r.Value)), <<>>, st))

\* The comparison methods return False with an error.
evalGreaterThan(left, right, st) ==
    With(checkNumeric(left, right), LAMBDA c :
        IF c.err # <<>> THEN Return(False, c.err, st)
        ELSE Return(IF FLt(c.r.Value, c.l.Value) THEN True ELSE False, <<>>, st))

evalGreaterThanEq(left, right, st) ==
    With(checkNumeric(left, right), LAMBDA c :
        IF c.err # <<>> THEN Return(False, c.err, st)
        ELSE Return(IF FLe(c.r.Value, c.l.Value) THEN True ELSE False, <<>>, st))

evalLessThan(left, right, st) ==
    With(checkNumeric(left, right), LAMBDA c :
        IF c.err # <<>> THEN Return(False, c.err, st)
        ELSE Return(IF FLt(c.l.Value, c.r.Value) THEN True ELSE False, <<>>, st))

evalLessThanEq(left, right, st) ==
    With(checkNumeric(left, right), LAMBDA c :
        IF c.err # <<>> THEN Return(False, c.err, st)
        ELSE Return(IF FLe(c.l.Value, c.r.Value) THEN True ELSE False, <<>>, st))

evalEqual(left, right) == IF Equal(left, right) THEN True ELSE False

evalNotEqual(left, right) == IF Equal(left, right) THEN False ELSE True

evalIdent(i, node, st) ==
    With(Get(st.envs, i.env, node.Name), LAMBDA g :
        IF ~g.ok THEN Return(Nil, <<"use of undefined variable", node.Name>>, st)
        ELSE Return(g.v, <<>>, st))

RECURSIVE Eval(_, _, _)
RECURSIVE evalStatementsFrom(_, _, _, _, _)
RECURSIVE evalStatementsFrom_continue(_, _, _, _, _, _)

\* The loop of evalStatements from statement k on, result being the value
\* of the statement before.
evalStatementsFrom(i, statements, k, result, st) ==
    IF k > Len(statements) THEN Return(result, <<>>, st)
    ELSE With(Eval(i, statements[k], st), LAMBDA r :
             IF r.panic THEN r
             ELSE IF r.err # <<>> THEN Return(Nil, r.err, r.st)
             ELSE evalStatementsFrom(i, statements, k + 1, r.val, r.st))

evalStatementsFrom_continue(i, statements, k, result, err, st) ==
    IF k > Len(statements)
    THEN (IF err # <<>> THEN Return(Nil, err, st) ELSE Return(result, <<>>, st))
    ELSE With(Eval(i, statements[k], st), LAMBDA r :
             IF r.panic THEN r
             ELSE evalStatementsFrom_continue(i, statements, k + 1, r.val,
                      IF err # <<>> THEN err ELSE r.err, r.st))

\* Mutant: the loop carries on after a failing statement and returns the
\* first error once every statement has been evaluated.
evalStatements_continue(i, statements, st) ==
    evalStatementsFrom_continue(i, statements, 1, Nil, <<>>, st)

evalStatements(i, statements, st) == evalStatementsFrom(i, statements, 1, Nil, st)

\* operand.Kind() on a nil operand is a nil dereference.
evalUnaryExpression(i, node, st) ==
    Try(Eval(i, node.Value, st), LAMBDA operand :
        CASE node.Tok.Kind = "Minus" ->
                IF operand.val = Nil THEN Panics(operand.st)
                ELSE IF Kind(operand.val) # KindNumber
                THEN Return(Nil, <<"cannot negate a non numeric type", TypeString(operand.val)>>,
                            operand.st)
                ELSE IF operand.val.t # "Number"
                THEN Return(Nil, <<"could not cast to Number", operand.val.t>>, operand.st)
                ELSE Return(Number(FNeg(operand.val.Value)), <<>>, operand.st)
          [] node.Tok.Kind = "Bang" ->
                With(IsTruthy(operand.val), LAMBDA truthy :
                    IF truthy.panic THEN Panics(operand.st)
                    ELSE Return(Bool(~truthy.v), <<>>, operand.st))
          [] OTHER -> Return(Nil, <<"unsupported unary operator", node.Tok.Kind>>, operand.st))

\* Mutant: or and and are evaluated, the right operand only when the left
\* one does not decide.
evalBinaryExpression_shortCircuit(i, node, st) ==
    Try(Eval(i, node.Left, st), LAMBDA left :
        IF node.Op.Kind = "Or" /\ left.val # Nil /\ left.val.t = "*Bool" /\ left.val.Value
        THEN left
        ELSE Try(Eval(i, node.Right, left.st), LAMBDA right :
            IF node.Op.Kind \in {"Or", "And"} THEN right
            ELSE Return(Nil, <<"unsupported binary operator", node.Op.Kind>>, right.st)))

evalBinaryExpression(i, node, st) ==
    Try(Eval(i, node.Left, st), LAMBDA left :
        Try(Eval(i, node.Right, left.st), LAMBDA right :
            CASE node.Op.Kind = "Minus" -> evalBinarySubtract(left.val, right.val, right.st)
              [] node.Op.Kind = "Plus" -> evalBinaryAdd(left.val, right.val, right.st)
              [] node.Op.Kind = "ForwardSlash" -> evalBinaryDivide(left.val, right.val, right.st)
              [] node.Op.Kind = "Star" -> evalBinaryMultiply(left.val, right.val, right.st)
              [] node.Op.Kind = "GreaterThan" -> evalGreaterThan(left.val, right.val, right.st)
              [] node.Op.Kind = "GreaterThanEq" -> evalGreaterThanEq(left.val, right.val, right.st)
              [] node.Op.Kind = "LessThan" -> evalLessThan(left.val, right.val, right.st)
              [] node.Op.Kind = "LessThanEq" -> evalLessThanEq(left.val, right.val, right.st)
              [] node.Op.Kind = "DoubleEq" -> Return(evalEqual(left.val, right.val), <<>>, right.st)
              [] node.Op.Kind = "BangEq" -> Return(evalNotEqual(left.val, right.val), <<>>, right.st)
              [] OTHER -> Return(Nil, <<"unsupported binary operator", node.Op.Kind>>, right.st)))

\* Mutant: the name is defined, as nil, before the initializer is evaluated
\* and assigned once the initializer has its value.
evalVarDeclaration_defineFirst(i, node, st) ==
    With(Define(st.envs, i.env, node.Ident.Name, Nil), LAMBDA d :
        IF d.err # <<>> \/ node.Value = NilNode
        THEN Return(Nil, d.err, [st EXCEPT !.envs = d.envs])
        ELSE Try(Eval(i, node.Value, [st EXCEPT !.envs = d.envs]), LAMBDA value :
                 Return(Nil, <<>>,
                        [value.st EXCEPT !.envs =
                             Assign(@, i.env, node.Ident.Name, value.val).envs])))

\* Eval returns `nil, i.evalVarDeclaration(node)`.
evalVarDeclaration(i, node, st) ==
    IF node.Value = NilNode
    THEN With(Define(st.envs, i.env, node.Ident.Name, Nil), LAMBDA d :
             Return(Nil, d.err, [st EXCEPT !.envs = d.envs]))
    ELSE Try(Eval(i, node.Value, st), LAMBDA value :
             With(Define(value.st.envs, i.env, node.Ident.Name, value.val), LAMBDA d :
                 Return(Nil, d.err, [value.st EXCEPT !.envs = d.envs])))

\* fmt.Fprintln writes the value's String(), `<nil>` for a nil value.
evalPrintStatement(i, node, st) ==
    Try(Eval(i, node.Value, st), LAMBDA value :
        Return(Nil, <<>>,
               [value.st EXCEPT !.stdout =
                    Append(@, IF value.val = Nil THEN <<"<", "n", "i", "l", ">">>
                              ELSE TypeString(value.val))]))

\* The type switch of Eval; every other node, a ReturnStatement and a nil
\* node among them, takes the default case.
Eval(i, node, st) ==
    CASE node.type = "Program" -> evalStatements(i, node.Statements, st)
      [] node.type \in {"ExpressionStatement", "DeclarationStatement", "GroupedExpression"} ->
            Eval(i, node.Value, st)
      [] node.type = "UnaryExpression" -> evalUnaryExpression(i, node, st)
      [] node.type = "BinaryExpression" -> evalBinaryExpression(i, node, st)
      [] node.type = "VarDeclaration" -> evalVarDeclaration(i, node, st)
      [] node.type = "PrintStatement" -> evalPrintStatement(i, node, st)
      [] node.type = "Number" -> Return(evalNumber(node), <<>>, st)
      [] node.type = "Bool" -> Return(evalBool(node), <<>>, st)
      [] node.type = "String" -> Return(evalString(node), <<>>, st)
      [] node.type = "Ident" -> evalIdent(i, node, st)
      [] OTHER -> Return(Nil, <<"unhandled ast.Node in Eval", node.type>>, st)

(***************************************************************************)
(* The interpreter at work: interpreter.New has made one Interpreter, the  *)
(* program copies the Interpreter value and calls Eval, through any copy,  *)
(* on Programs that Parse returned without an error.  A panic is not       *)
(* recovered anywhere, so it ends the process.                             *)
(***************************************************************************)
MaxCalls == 3       \* Eval calls made on Programs
MaxCopies == 1      \* copies made of the Interpreter value

Words(text) == Join(text \o <<<<";">>>>)

EvalOperands == {<<"1">>, <<"0">>, KwTrue, <<"\"", "\"">>, <<"a">>}

EvalPrefixes == {<<>>, <<<<"!">>>>, <<<<"!">>, <<"!">>>>, <<<<"-">>>>}

Comparisons == {<<<<"1">>, op, <<"0">>>> : op \in {<<"<">>, <<"=", "=">>}}

Initializers == {<<<<"1">>>>, <<KwTrue>>, <<<<"!">>, KwTrue>>, <<<<"-">>, KwTrue>>}

SequenceStatements ==
    {<<KwPrint, <<"1">>, <<";">>>>, <<KwVar, <<"b">>, <<"=">>, <<"1">>, <<";">>>>}

MiddleStatements == {<<<<"-">>, KwTrue, <<";">>>>, <<<<"1">>, <<";">>>>}

\* The source texts evaluated: an expression statement for every prefix and
\* operand, comparisons bare and negated, declarations of a, a print and
\* returns, and three statement programs whose middle statement may fail.
EvalSources ==
    {Words(pre \o <<o>>) : pre \in EvalPrefixes, o \in EvalOperands}
    \cup {Words(c) : c \in Comparisons}
    \cup {Words(<<<<"!">>, <<"(">>>> \o c \o <<<<")">>>>) : c \in Comparisons}
    \cup {Words(<<KwVar, <<"a">>, <<"=">>>> \o e) : e \in Initializers}
    \cup {Words(<<KwPrint, <<"a">>>>), Words(<<KwReturn, <<"1">>>>), Words(<<KwReturn, <<"a">>>>)}
    \cup {Join(s1 \o s2 \o s3) : s1 \in SequenceStatements, s2 \in MiddleStatements,
                                  s3 \in SequenceStatements}

\* What Parse returns for each source text.
Parsed == [s \in EvalSources |-> Parse(NewParser("repl", s))]

Program(statements) == [type |-> "Program", Statements |-> statements]

\* log: how many Eval calls were made, and of the latest one the
\* interpreter (an index of interps), the source text and the outcome;
\* declarer is the interpreter of the latest call that made a binding and
\* failedSince tells whether a call has failed since then.
NoCall ==
    [calls |-> 0, declarer |-> 0, failedSince |-> FALSE, i |-> 0, src |-> <<>>,
     val |-> Nil, err |-> <<>>, panic |-> FALSE]

InitEval ==
    /\ lexer = NewLexer(<<>>) /\ state = "none" /\ tokens = <<>> /\ closed = FALSE /\ got = <<>>
    /\ NoParser
    /\ \E n \in {NewInterpreter(<<>>)} : envs = n.envs /\ interps = <<n.i>>
    /\ stdout = <<>>
    /\ log = NoCall

\* `j := i`: the struct is copied, the env pointer with it.
Copy ==
    /\ ~log.panic
    /\ Len(interps) < 1 + MaxCopies
    /\ \E j \in DOMAIN interps : interps' = Append(interps, interps[j])
    /\ UNCHANGED <<envs, stdout, log, lexVars, parseVars>>

\* The names each scope of the heap binds.
Bound(heap) == [e \in DOMAIN heap |-> DOMAIN heap[e].values]

\* i.Eval(program), the receiver being a copy of interps[j].
EvalCall ==
    /\ ~log.panic
    /\ log.calls < MaxCalls
    /\ \E j \in DOMAIN interps, s \in EvalSources :
          /\ Parsed[s].err = <<>>
          /\ \E r \in {Eval(interps[j], Program(Parsed[s].Statements),
                            [envs |-> envs, stdout |-> stdout])} :
                /\ envs' = r.st.envs
                /\ stdout' = r.st.stdout
                /\ log' = [calls |-> log.calls + 1,
                           declarer |-> IF Bound(r.st.envs) # Bound(envs) THEN j ELSE log.declarer,
                           failedSince |-> IF r.err # <<>> \/ r.panic THEN TRUE
                                           ELSE IF Bound(r.st.envs) # Bound(envs) THEN FALSE
                                           ELSE log.failedSince,
                           i |-> j, src |-> s, val |-> r.val, err |-> r.err,
                           panic |-> r.panic]
    /\ UNCHANGED <<interps, lexVars, parseVars>>

NextEval == Copy \/ EvalCall

SpecEval == InitEval /\ [][NextEval]_vars

(***************************************************************************)
(* C5: one Interpreter holds one global Environment across calls.  Every   *)
(* Eval call, failed ones included, leaves every binding made before it as *)
(* it was; a call on `x;` returns what an earlier call bound x to, through *)
(* whichever copy of the Interpreter it is made; and after a successful    *)
(* call every variable it declared is visible, with the value of its       *)
(* initializer, through every copy.                                        *)
(***************************************************************************)
C5_Step ==
    log'.calls = log.calls + 1 =>
        /\ \A e \in DOMAIN envs : \A x \in DOMAIN envs[e].values :
              /\ x \in DOMAIN envs'[e].values
              /\ envs'[e].values[x] = envs[e].values[x]
        /\ \A x \in DOMAIN envs[interps[log'.i].env].values :
              log'.src = Words(<<x>>) =>
                  /\ ~log'.panic
                  /\ log'.err = <<>>
                  /\ log'.val = envs[interps[log'.i].env].values[x]
        /\ (log'.err = <<>> /\ ~log'.panic) =>
              \A k \in DOMAIN Parsed[log'.src].Statements :
                  Parsed[log'.src].Statements[k].type = "DeclarationStatement" =>
                      \A j \in DOMAIN interps' :
                          \A post \in {[envs |-> envs', stdout |-> stdout']} :
                              \A decl \in {Parsed[log'.src].Statements[k].Value} :
                                  \E seen \in {evalIdent(interps'[j], decl.Ident, post)} :
                                      /\ seen.err = <<>>
                                      /\ seen.val = Eval(interps'[j], decl.Value, post).val

C5_PersistentEnvironment == [][C5_Step]_vars

\* `a;` evaluated to 1 through the copy: a was bound through the original
\* Interpreter and a call has failed since.
C5_Witness ==
    /\ log.calls = 3
    /\ log.i = 2
    /\ log.declarer = 1
    /\ log.failedSince
    /\ log.src = Words(<<<<"a">>>>)
    /\ log.err = <<>>
    /\ log.val = Number(Fin(1, 1, 1))

(***************************************************************************)
(* C6: evaluating a Program runs the statements in order and stops at the  *)
(* first one whose evaluation returns an error: Eval returns that error    *)
(* and no value, environment and output are what the statements before the *)
(* failing one left, and nothing of a later statement is declared or       *)
(* printed.  A program none of whose statements fails leaves what all of   *)
(* them left and returns no error.                                         *)
(***************************************************************************)
\* The statements evaluated one by one from statement k on: the index of
\* the first that fails (0 if none does), its error, and the memory left
\* by the statements before it.
RECURSIVE FirstFailure(_, _, _, _)
FirstFailure(i, statements, k, st) ==
    IF k > Len(statements) THEN [at |-> 0, err |-> <<>>, panic |-> FALSE, st |-> st]
    ELSE With(Eval(i, statements[k], st), LAMBDA r :
             IF r.err # <<>> \/ r.panic
             THEN [at |-> k, err |-> r.err, panic |-> r.panic, st |-> st]
             ELSE FirstFailure(i, statements, k + 1, r.st))

C6_Step ==
    log'.calls = log.calls + 1 =>
        \A f \in {FirstFailure(interps[log'.i], Parsed[log'.src].Statements, 1,
                               [envs |-> envs, stdout |-> stdout])} :
            ~f.panic =>
                /\ log'.err = f.err
                /\ envs' = f.st.envs
                /\ stdout' = f.st.stdout
                /\ f.at # 0 => log'.val = Nil

C6_StopsAtFirstError == [][C6_Step]_vars

\* `print 1; -true; var b = 1;` failed in its second statement: 1 was
\* printed and b is not bound.
C6_Witness ==
    /\ log.calls = 1
    /\ log.src = Join(<<KwPrint, <<"1">>, <<";">>, <<"-">>, KwTrue, <<";">>,
                        KwVar, <<"b">>, <<"=">>, <<"1">>, <<";">>>>)
    /\ log.err # <<>>
    /\ log.val = Nil
    /\ stdout = <<<<"1">>>>
    /\ <<"b">> \notin DOMAIN envs[1].values

(***************************************************************************)
(* C7: Eval of a Program that Parse returned without an error never        *)
(* panics.                                                                 *)
(***************************************************************************)
C7_EvalNeverPanics == ~log.panic

(***************************************************************************)
(* C8: Eval of `!e`, for every operand e that evaluates without error,     *)
(* succeeds with a Bool whose value is the negation of the truthiness of   *)
(* e: a Bool is as truthy as its value, a Number unless it is 0, a String  *)
(* unless it is empty.                                                     *)
(***************************************************************************)
Truthiness(v) ==
    CASE v.t \in {"Bool", "*Bool"} -> v.Value
      [] v.t = "Number" -> ~FEq(v.Value, Zero)
      [] v.t = "String" -> v.Value # <<>>

C8_BangAlwaysSucceeds ==
    log.calls > 0 =>
        \A stmts \in {Parsed[log.src].Statements} :
            (/\ Len(stmts) = 1
             /\ stmts[1].type = "ExpressionStatement"
             /\ stmts[1].Value.type = "UnaryExpression"
             /\ stmts[1].Value.Tok.Kind = "Bang") =>
                \A operand \in {Eval(interps[log.i], stmts[1].Value.Value,
                                     [envs |-> envs, stdout |-> stdout])} :
                    (operand.err = <<>> /\ ~operand.panic) =>
                        /\ ~log.panic
                        /\ log.err = <<>>
                        /\ log.val.t \in {"Bool", "*Bool"}
                        /\ log.val.Value = ~Truthiness(operand.val)

(***************************************************************************)
(* C9: Eval of a Program that is one statement `return e;` returns what    *)
(* Eval of e returns: its value with no error, or its error.               *)
(***************************************************************************)
C9_ReturnYieldsValue ==
    log.calls > 0 =>
        \A stmts \in {Parsed[log.src].Statements} :
            (Len(stmts) = 1 /\ stmts[1].type = "ReturnStatement") =>
                \A value \in {Eval(interps[log.i], stmts[1].Value,
                                   [envs |-> envs, stdout |-> stdout])} :
                    ~value.panic => log.val = value.val /\ log.err = value.err

(***************************************************************************)
(* C10: every Bool that Eval returns is one of the two canonical           *)
(* singletons True and False.                                              *)
(***************************************************************************)
C10_CanonicalBools == log.val.t \in {"Bool", "*Bool"} => log.val \in {True, False}

(***************************************************************************)
(* Binary expressions: Eval is called on the Program of a declaration of a *)
(* and on the Programs `l op r;` for every operator and every pair of      *)
(* operands: Number, String and Bool literals, the variable a, a negated   *)
(* Number and the result of a '!'.                                         *)
(***************************************************************************)
MaxBinaryCalls == 2     \* Eval calls made on declarations and binary expressions

ArithmeticOps == {<<"+">>, <<"-">>, <<"*">>, <<"/">>}

OrderOps == {<<">">>, <<">", "=">>, <<"<">>, <<"<", "=">>}

EqualityOps == {<<"=", "=">>, <<"!", "=">>}

BinaryOperands ==
    {<<<<"1">>>>, <<<<"0">>>>, <<KwTrue>>, <<<<"\"", "\"">>>>, <<<<"\"", "b", "\"">>>>,
     <<<<"a">>>>, <<<<"-">>, <<"0">>>>, <<<<"!">>, <<"0">>>>}

BinaryInitializers == {<<<<"2">>>>, <<<<"\"", "b", "\"">>>>, <<KwFalse>>}

LogicalOps == {KwOr, KwAnd}

\* `l or r;` and `l and r;` for every two operands.
LogicalSources ==
    {Words(l \o <<op>> \o r) : l \in BinaryOperands, op \in LogicalOps, r \in BinaryOperands}

\* or and and next to an operator of another precedence level.
MixedSources ==
    {Words(<<<<"1">>, <<"=", "=">>, <<"0">>, KwOr, <<"1">>>>),
     Words(<<<<"1">>, KwOr, <<"0">>, <<"+">>, <<"1">>>>),
     Words(<<<<"1">>, KwOr, <<"0">>, <<"<">>, <<"1">>>>),
     Words(<<<<"1">>, <<"<">>, <<"0">>, KwAnd, <<"1">>>>)}

BinarySources ==
    {Words(l \o <<op>> \o r) :
        l \in BinaryOperands, op \in ArithmeticOps \cup OrderOps \cup EqualityOps,
        r \in BinaryOperands}
    \cup {Words(<<KwVar, <<"a">>, <<"=">>>> \o e) : e \in BinaryInitializers}
    \cup LogicalSources \cup MixedSources

ParsedBinary == [s \in BinarySources |-> Parse(NewParser("repl", s))]

\* i.Eval(program) for the Program of a binary expression or a declaration.
BinaryCall ==
    /\ ~log.panic
    /\ log.calls < MaxBinaryCalls
    /\ \E j \in DOMAIN interps, s \in BinarySources :
          /\ ParsedBinary[s].err = <<>>
          /\ \E r \in {Eval(interps[j], Program(ParsedBinary[s].Statements),
                            [envs |-> envs, stdout |-> stdout])} :
                /\ envs' = r.st.envs
                /\ stdout' = r.st.stdout
                /\ log' = [calls |-> log.calls + 1,
                           declarer |-> IF Bound(r.st.envs) # Bound(envs) THEN j ELSE log.declarer,
                           failedSince |-> IF r.err # <<>> \/ r.panic THEN TRUE
                                           ELSE IF Bound(r.st.envs) # Bound(envs) THEN FALSE
                                           ELSE log.failedSince,
                           i |-> j, src |-> s, val |-> r.val, err |-> r.err,
                           panic |-> r.panic]
    /\ UNCHANGED <<interps, lexVars, parseVars>>

\* The values types.Equal is called on: nil, Numbers, both *Bool singletons,
\* a Bool struct and Strings, some with the text of a value of another kind.
EqualValues ==
    <<Nil, Number(Zero), Number(FNeg(Zero)), Number(Fin(1, 1, 1)), Number(NaN),
      True, False, Bool(TRUE), String(<<>>), String(<<"1">>), String(KwTrue)>>

\* types.Equal(a, b), called on two values directly.
EqualCall ==
    /\ ~log.panic
    /\ log.calls < MaxBinaryCalls
    /\ \E x, y \in DOMAIN EqualValues :
          log' = [calls |-> log.calls + 1, declarer |-> log.declarer,
                  failedSince |-> log.failedSince, i |-> 0, src |-> <<>>,
                  val |-> Nil, err |-> <<>>, panic |-> FALSE,
                  a |-> EqualValues[x], b |-> EqualValues[y],
                  equal |-> Equal(EqualValues[x], EqualValues[y])]
    /\ UNCHANGED <<envs, interps, stdout, lexVars, parseVars>>

NextBinary == BinaryCall \/ EqualCall

SpecBinary == InitEval /\ [][NextBinary]_vars

\* The BinaryExpression of the latest call, when its Program is one
\* expression statement holding one (the empty set otherwise).
LatestBinary ==
    IF log.src \notin BinarySources THEN {}
    ELSE {stmt.Value : stmt \in
            {st \in {ParsedBinary[log.src].Statements[k] :
                        k \in DOMAIN ParsedBinary[log.src].Statements} :
                /\ Len(ParsedBinary[log.src].Statements) = 1
                /\ st.type = "ExpressionStatement"
                /\ st.Value.type = "BinaryExpression"}}

Memory == [envs |-> envs, stdout |-> stdout]

(***************************************************************************)
(* C11: Eval of `l op r`, op one of + - * / > >= < <=, both operands       *)
(* evaluating without error, succeeds if and only if both operands are     *)
(* Numbers, or op is + and both are Strings, and then the result is a      *)
(* Number (a Bool for a comparison), respectively the concatenation.  In   *)
(* every other combination it returns an error, the value beside the error *)
(* is nil or the zero value of the operator's result type, nothing         *)
(* computed from the operands, and the Program's Eval returns nil.         *)
(***************************************************************************)
C11_BinaryTypeRule ==
    \A node \in LatestBinary :
        node.Op.Kind \in {"Plus", "Minus", "Star", "ForwardSlash", "GreaterThan",
                          "GreaterThanEq", "LessThan", "LessThanEq"} =>
            \A l \in {Eval(interps[log.i], node.Left, Memory)} :
            \A r \in {Eval(interps[log.i], node.Right, Memory)} :
                (l.err = <<>> /\ ~l.panic /\ r.err = <<>> /\ ~r.panic) =>
                    \A numbers \in {l.val.t = "Number" /\ r.val.t = "Number"} :
                    \A strings \in {/\ node.Op.Kind = "Plus"
                                    /\ l.val.t = "String" /\ r.val.t = "String"} :
                        /\ ~log.panic
                        /\ (log.err = <<>>) <=> (numbers \/ strings)
                        /\ strings => log.val = String(l.val.Value \o r.val.Value)
                        /\ numbers =>
                              IF node.Op.Kind \in {"Plus", "Minus", "Star", "ForwardSlash"}
                              THEN log.val.t = "Number"
                              ELSE log.val.t = "*Bool"
                        /\ ~(numbers \/ strings) =>
                              /\ log.val = Nil
                              /\ \A v \in {Eval(interps[log.i], node, Memory).val} :
                                    \/ v = Nil
                                    \/ v.t = "Number" /\ v.Value = Zero
                                    \/ v.t = "*Bool" /\ ~v.Value

\* `"b" + 1;` returned an error and no value, and so did `a < 1;` with a
\* bound to a String.
C11_Witness ==
    /\ log.calls = 2
    /\ log.src = Words(<<<<"a">>, <<"<">>, <<"1">>>>)
    /\ <<"a">> \in DOMAIN envs[1].values
    /\ envs[1].values[<<"a">>].t = "String"
    /\ log.err # <<>>
    /\ log.val = Nil

(***************************************************************************)
(* C12: types.Equal(a, b) is true if and only if both are nil, or both are *)
(* non-nil, of the same Kind and with the same String() form; it is        *)
(* reflexive and symmetric and values of different Kind are never equal.   *)
(* Eval of `l == r` and of `l != r`, the operands evaluating without       *)
(* error, returns no error, and one is the negation of the other.          *)
(***************************************************************************)
SameForm(a, b) ==
    \/ a = Nil /\ b = Nil
    \/ a # Nil /\ b # Nil /\ Kind(a) = Kind(b) /\ TypeString(a) = TypeString(b)

Opposite(node) ==
    [node EXCEPT !.Op.Kind = IF @ = "DoubleEq" THEN "BangEq" ELSE "DoubleEq"]

C12_Equal ==
    /\ "equal" \in DOMAIN log =>
          /\ log.equal <=> SameForm(log.a, log.b)
          /\ Equal(log.b, log.a) = log.equal
          /\ Equal(log.a, log.a)
          /\ (log.a # Nil /\ log.b # Nil /\ Kind(log.a) # Kind(log.b)) => ~log.equal
    /\ \A node \in LatestBinary :
          node.Op.Kind \in {"DoubleEq", "BangEq"} =>
              \A l \in {Eval(interps[log.i], node.Left, Memory)} :
              \A r \in {Eval(interps[log.i], node.Right, Memory)} :
                  (l.err = <<>> /\ ~l.panic /\ r.err = <<>> /\ ~r.panic) =>
                      /\ ~log.panic
                      /\ log.err = <<>>
                      /\ log.val.t = "*Bool"
                      /\ log.val.Value <=>
                            (SameForm(l.val, r.val) <=> node.Op.Kind = "DoubleEq")
                      /\ \A other \in {Eval(interps[log.i], Opposite(node), Memory)} :
                            /\ ~other.panic
                            /\ other.err = <<>>
                            /\ other.val.t = "*Bool"
                            /\ other.val.Value = ~log.val.Value

\* `- 0 == 0;` evaluated to False: the String() forms are -0 and 0.
C12_Witness ==
    /\ log.src = Words(<<<<"-">>, <<"0">>, <<"=", "=">>, <<"0">>>>)
    /\ log.err = <<>>
    /\ log.val.t = "*Bool"
    /\ ~log.val.Value

(***************************************************************************)
(* C13: Eval of `var x = e;` evaluates e before it touches the             *)
(* environment.  If e returns an error, or x is already bound in the       *)
(* global scope, Eval returns an error and no value and every scope is as  *)
(* it was: x is still unbound, respectively still has its old value.       *)
(* Otherwise x is bound to the value of e, nothing else changes and Eval   *)
(* returns no value and no error.                                          *)
(***************************************************************************)
C13_Step ==
    (/\ log'.calls = log.calls + 1
     /\ Len(Parsed[log'.src].Statements) = 1
     /\ Parsed[log'.src].Statements[1].type = "DeclarationStatement") =>
        \A decl \in {Parsed[log'.src].Statements[1].Value} :
        \A scope \in {interps[log'.i].env} :
        \A e \in {Eval(interps[log'.i], decl.Value, [envs |-> envs, stdout |-> stdout])} :
            IF e.panic THEN envs' = envs
            ELSE IF e.err # <<>> \/ decl.Ident.Name \in DOMAIN envs[scope].values
            THEN /\ ~log'.panic
                 /\ log'.err # <<>>
                 /\ e.err # <<>> => log'.err = e.err
                 /\ log'.val = Nil
                 /\ envs' = envs
                 /\ stdout' = stdout
            ELSE /\ ~log'.panic
                 /\ log'.err = <<>>
                 /\ log'.val = Nil
                 /\ stdout' = stdout
                 /\ DOMAIN envs' = DOMAIN envs
                 /\ \A k \in DOMAIN envs : k # scope => envs'[k] = envs[k]
                 /\ DOMAIN envs'[scope].values =
                        DOMAIN envs[scope].values \cup {decl.Ident.Name}
                 /\ \A x \in DOMAIN envs[scope].values :
                        envs'[scope].values[x] = envs[scope].values[x]
                 /\ envs'[scope].values[decl.Ident.Name] = e.val

C13_VarDeclaration == [][C13_Step]_vars

\* `var a = - true;` returned the error of its initializer and a is unbound;
\* before it, `var b = 1;` had bound b.
C13_Witness ==
    /\ log.calls = 2
    /\ log.src = Words(<<KwVar, <<"a">>, <<"=">>, <<"-">>, KwTrue>>)
    /\ log.err # <<>>
    /\ log.val = Nil
    /\ DOMAIN envs[1].values = {<<"b">>}

(***************************************************************************)
(* Environments: a program makes scopes with NewEnvironment, each with no  *)
(* parent or with a scope made before as its parent, and calls Define, Get *)
(* and Assign on them.  log is the latest call and what it returned.       *)
(***************************************************************************)
MaxScopes == 2      \* Environments made

EnvNames == {<<"x">>, <<"y">>}

EnvValues == {Number(Fin(1, 1, 1)), Number(Fin(1, 2, 1))}

InitEnv ==
    /\ lexer = NewLexer(<<>>) /\ state = "none" /\ tokens = <<>> /\ closed = FALSE /\ got = <<>>
    /\ NoParser
    /\ envs = <<>>
    /\ interps = <<>>
    /\ stdout = <<>>
    /\ log = [op |-> "none"]

NewEnvironmentCall ==
    /\ Len(envs) < MaxScopes
    /\ \E parent \in {0} \cup DOMAIN envs :
          /\ envs' = Append(envs, NewEnvironment("scope", parent))
          /\ log' = [op |-> "NewEnvironment", parent |-> parent]
    /\ UNCHANGED <<interps, stdout, lexVars, parseVars>>

DefineCall ==
    /\ \E e \in DOMAIN envs, name \in EnvNames, v \in EnvValues :
          \E r \in {Define(envs, e, name, v)} :
              /\ envs' = r.envs
              /\ log' = [op |-> "Define", e |-> e, name |-> name, v |-> v, err |-> r.err]
    /\ UNCHANGED <<interps, stdout, lexVars, parseVars>>

GetCall ==
    /\ \E e \in DOMAIN envs, name \in EnvNames :
          \E r \in {Get(envs, e, name)} :
              log' = [op |-> "Get", e |-> e, name |-> name, v |-> r.v, ok |-> r.ok]
    /\ UNCHANGED <<envs, interps, stdout, lexVars, parseVars>>

AssignCall ==
    /\ \E e \in DOMAIN envs, name \in EnvNames, v \in EnvValues :
          \E r \in {Assign(envs, e, name, v)} :
              /\ envs' = r.envs
              /\ log' = [op |-> "Assign", e |-> e, name |-> name, v |-> v, err |-> r.err]
    /\ UNCHANGED <<interps, stdout, lexVars, parseVars>>

NextEnv == NewEnvironmentCall \/ DefineCall \/ GetCall \/ AssignCall

SpecEnv == InitEnv /\ [][NextEnv]_vars

\* A call was made in this step (a step that changes nothing is none).
Called(op) == log'.op = op /\ <<envs, log>>' # <<envs, log>>

\* The scopes from e out to the root, innermost first.
RECURSIVE Chain(_, _)
Chain(heap, e) == IF e = 0 THEN <<>> ELSE <<e>> \o Chain(heap, heap[e].parent)

\* The innermost scope of the chain of e that binds name (0 if none does).
Binder(heap, e, name) ==
    With(Chain(heap, e), LAMBDA chain :
        With({k \in DOMAIN chain : name \in DOMAIN heap[chain[k]].values}, LAMBDA ks :
            IF ks = {} THEN 0 ELSE chain[CHOOSE k \in ks : \A j \in ks : k <= j]))

\* heap2 is heap1 but for the value of name in scope e.
OnlyChange(heap1, heap2, e, name) ==
    /\ DOMAIN heap2 = DOMAIN heap1
    /\ \A k \in DOMAIN heap1 :
          /\ heap2[k].parent = heap1[k].parent
          /\ heap2[k].name = heap1[k].name
          /\ DOMAIN heap2[k].values \ {name} = DOMAIN heap1[k].values \ {name}
          /\ \A x \in DOMAIN heap1[k].values :
                (k # e \/ x # name) =>
                    x \in DOMAIN heap2[k].values /\ heap2[k].values[x] = heap1[k].values[x]
          /\ k # e => DOMAIN heap2[k].values = DOMAIN heap1[k].values

(***************************************************************************)
(* C14: Define(name, v) fails if and only if the scope it is called on     *)
(* binds name already, whatever its ancestors bind, and then no scope      *)
(* changes.  Otherwise name is bound to v in that scope and nothing else   *)
(* changes, an ancestor that binds name keeps its value, and Get(name) on  *)
(* that scope returns v.                                                   *)
(***************************************************************************)
C14_Step ==
    Called("Define") =>
        IF log'.name \in DOMAIN envs[log'.e].values
        THEN log'.err # <<>> /\ envs' = envs
        ELSE /\ log'.err = <<>>
             /\ OnlyChange(envs, envs', log'.e, log'.name)
             /\ log'.name \in DOMAIN envs'[log'.e].values
             /\ envs'[log'.e].values[log'.name] = log'.v
             /\ Get(envs', log'.e, log'.name) = [v |-> log'.v, ok |-> TRUE]

C14_DefineThisScopeOnly == [][C14_Step]_vars

\* x was defined as 2 in scope 2 while its parent, scope 1, binds x to 1.
C14_Witness ==
    /\ log.op = "Define" /\ log.e = 2 /\ log.name = <<"x">> /\ log.err = <<>>
    /\ envs[2].parent = 1
    /\ <<"x">> \in DOMAIN envs[1].values
    /\ envs[1].values[<<"x">>] = Number(Fin(1, 1, 1))
    /\ envs[2].values[<<"x">>] = Number(Fin(1, 2, 1))

(***************************************************************************)
(* C15: Get(name) returns the binding of the innermost scope of the chain  *)
(* that binds name, and not-found only when no scope up to the root binds  *)
(* it.  Get changes no scope, and the same Get made again returns the same *)
(* result.                                                                 *)
(***************************************************************************)
C15_Step ==
    Called("Get") =>
        /\ envs' = envs
        /\ \A b \in {Binder(envs, log'.e, log'.name)} :
              IF b = 0 THEN ~log'.ok /\ log'.v = Nil
              ELSE log'.ok /\ log'.v = envs[b].values[log'.name]
        /\ Get(envs', log'.e, log'.name) = [v |-> log'.v, ok |-> log'.ok]

C15_GetInnermost == [][C15_Step]_vars

\* Get(y) on scope 2, which does not bind y, returned the 1 its parent binds.
C15_Witness ==
    /\ log.op = "Get" /\ log.e = 2 /\ log.name = <<"y">>
    /\ envs[2].parent = 1
    /\ <<"y">> \notin DOMAIN envs[2].values
    /\ log.ok
    /\ log.v = Number(Fin(1, 1, 1))

(***************************************************************************)
(* C16: Assign(name, v) fails if and only if no scope of the chain binds   *)
(* name, and then no scope changes.  Otherwise it overwrites the binding   *)
(* in the innermost scope that binds name and nothing else: an outer scope *)
(* that binds name keeps its value and no scope gains a name.  After it    *)
(* Get(name) on the same scope returns v.                                  *)
(***************************************************************************)
C16_Step ==
    Called("Assign") =>
        \A b \in {Binder(envs, log'.e, log'.name)} :
            /\ \A k \in DOMAIN envs : DOMAIN envs'[k].values = DOMAIN envs[k].values
            /\ IF b = 0 THEN log'.err # <<>> /\ envs' = envs
               ELSE /\ log'.err = <<>>
                    /\ OnlyChange(envs, envs', b, log'.name)
                    /\ envs'[b].values[log'.name] = log'.v
                    /\ Get(envs', log'.e, log'.name) = [v |-> log'.v, ok |-> TRUE]

C16_AssignNearest == [][C16_Step]_vars

\* Assign(x, 2) on scope 2 overwrote the x of scope 2; its parent, scope 1,
\* still binds x to 1.
C16_Witness ==
    /\ log.op = "Assign" /\ log.e = 2 /\ log.name = <<"x">> /\ log.err = <<>>
    /\ log.v = Number(Fin(1, 2, 1))
    /\ envs[2].parent = 1
    /\ <<"x">> \in DOMAIN envs[1].values
    /\ <<"x">> \in DOMAIN envs[2].values
    /\ envs[1].values[<<"x">>] = Number(Fin(1, 1, 1))
    /\ envs[2].values[<<"x">>] = Number(Fin(1, 2, 1))

(***************************************************************************)
(* C17: for a source that is one statement (a var declaration, a print, a  *)
(* return or an expression statement) valid but for its ';', which is      *)
(* missing at the end of the input, Parse returns zero statements and      *)
(* records exactly one SyntaxError.  Its Token is the last token of the    *)
(* statement, its Line is 1 plus the number of line breaks before that     *)
(* token, and its Col is 1 + Token.End - the offset just after the last    *)
(* line break before the token: one past the end of the token.             *)
(***************************************************************************)
\* The source with a ';' at its end is one statement without error, and
\* the source itself does not end in a ';'.
MissingSemiColon(p) ==
    /\ Len(p.toks) >= 2
    /\ p.toks[Len(p.toks) - 1].Kind \notin {"SemiColon", "Error"}
    /\ \E r \in {Parse(NewParser("src", p.src \o <<";">>))} :
          r.err = <<>> /\ Len(r.Statements) = 1

BreaksBefore(src, offset) == {k \in 1..offset : src[k] = "\n"}

Emitted == got \o tokens

C18_TokenWithinSource ==
    \A k \in DOMAIN Emitted :
        /\ 0 <= Emitted[k].Start
        /\ Emitted[k].Start <= Emitted[k].End
        /\ Emitted[k].End <= Len(lexer.src)

\* `1.1` was scanned to its end: a Number token over all three bytes, then
\* EOF at offset 3.
C18_Witness ==
    /\ lexer.src = <<"1", ".", "1">>
    /\ Len(Emitted) >= 2
    /\ Emitted[1] = Token("Number", 0, 3)
    /\ Emitted[2] = Token("EOF", 3, 3)

(***************************************************************************)
(* C19: the only token of zero width (End = Start) the lexer emits is EOF: *)
(* every token of another kind, Error tokens included, covers at least one *)
(* byte of the source.                                                     *)
(***************************************************************************)
C19_OnlyEOFZeroWidth ==
    \A k \in DOMAIN Emitted :
        Emitted[k].Kind # "EOF" => Emitted[k].End > Emitted[k].Start

(***************************************************************************)
(* C20: when lexString runs on an opening quote and the input ends with no *)
(* further quote, it emits one Error token, from the offset just after the *)
(* opening quote to len(source), no String token, and halts; when there is *)
(* a closing quote it emits one String token from the opening quote to the *)
(* offset after the first closing quote.                                   *)
(***************************************************************************)
C20_Step ==
    (state = "lexString" /\ state' # "lexString") =>
        \A closers \in {{k \in (lexer.pos + 2)..Len(lexer.src) : lexer.src[k] = "\""}} :
            IF closers = {}
            THEN /\ tokens' = Append(tokens, Token("Error", lexer.pos + 1, Len(lexer.src)))
                 /\ state' = "nil"
            ELSE /\ tokens' = Append(tokens,
                        Token("String", lexer.pos,
                              CHOOSE k \in closers : \A j \in closers : k <= j))
                 /\ state' = "lexStart"

C20_StringTokens == [][C20_Step]_vars

\* ` "1`: the string opened at offset 1 is not closed; the Error token runs
\* from offset 2 to the end of the input.
C20_Witness ==
    /\ lexer.src = <<" ", "\"", "1">>
    /\ Len(Emitted) >= 1
    /\ Emitted[1] = Token("Error", 2, 3)

(***************************************************************************)
(* C21: the lexeme of every Number token is a non-empty run of digits,     *)
(* optionally followed by exactly one '.' and a further non-empty run of   *)
(* digits: a Number lexeme contains at most one '.', and a '.' that is not *)
(* followed by a digit is left to be emitted as a Dot token.               *)
(***************************************************************************)
IsNumberLexeme(text) ==
    \E n \in 1..Len(text) :
        /\ \A k \in 1..n : IsDigit(text[k])
        /\ \/ n = Len(text)
           \/ /\ n + 2 <= Len(text)
              /\ text[n + 1] = "."
              /\ \A k \in (n + 2)..Len(text) : IsDigit(text[k])

C21_NumberLexeme ==
    \A k \in DOMAIN Emitted :
        Emitted[k].Kind = "Number" =>
            /\ IsNumberLexeme(SubSeq(lexer.src, Emitted[k].Start + 1, Emitted[k].End))
            /\ (Emitted[k].End < Len(lexer.src) /\ lexer.src[Emitted[k].End + 1] = ".")
                  => (k < Len(Emitted) => Emitted[k + 1].Kind = "Dot")

(***************************************************************************)
(* C22: running the scanner in a goroutine over the buffered channel is    *)
(* unobservable: for every input and every interleaving of producer and    *)
(* consumer, the tokens returned by successive NextToken calls are the     *)
(* tokens the state machine emits when run synchronously to completion, in *)
(* the same order, none lost and none duplicated.                          *)
(***************************************************************************)
\* The tokens NextToken has returned before the channel was found closed and
\* drained, then those still in the channel, are the first tokens of the
\* synchronous run; what NextToken returns from the closed channel is the
\* zero Token; and when the goroutine has ended every token of the
\* synchronous run was sent.
\* run executed synchronously on the source s (the run of the long source,
\* a constant, is computed once).
LongRun == run(LongSource)

Synchronous(s) == IF s = LongSource THEN LongRun ELSE run(s)

C22_AsSynchronous ==
    \A sync \in {Synchronous(lexer.src)} :
        /\ \A k \in DOMAIN Emitted :
               Emitted[k] = IF k <= Len(sync) THEN sync[k] ELSE ZeroToken
        /\ Len(got) > Len(sync) => tokens = <<>> /\ closed
        /\ state = "done" => Len(Emitted) >= Len(sync)

\* The channel was full, with the producer blocked on the send of its next
\* token, and later the consumer received all the tokens up to the EOF.
C22_Witness ==
    /\ lexer.src = LongSource
    /\ Len(got) = bufferSize + 2
    /\ got[bufferSize + 2].Kind = "EOF"
    /\ tokens = <<>>

(***************************************************************************)
(* C23: in the token stream of any input, up to and including the first    *)
(* EOF, spans are ordered and never overlap: the Start of each token is at *)
(* or after the End of the token emitted before it.                        *)
(***************************************************************************)
\* The tokens of the stream s up to and including its first EOF (all of s
\* when no EOF was sent yet).
UpToEOF(s) ==
    IF \E k \in DOMAIN s : s[k].Kind = "EOF"
    THEN SubSeq(s, 1, CHOOSE k \in DOMAIN s :
                          /\ s[k].Kind = "EOF"
                          /\ \A j \in 1..(k - 1) : s[j].Kind # "EOF")
    ELSE s

C23_SpansOrdered ==
    \A stream \in {UpToEOF(Emitted)} :
        \A k \in 2..Len(stream) : stream[k].Start >= stream[k - 1].End

\* `("1`: the Error token of the unterminated string starts after the
\* OpenParen token and the quote, and the EOF follows it.
C23_Witness ==
    /\ lexer.src = <<"(", "\"", "1">>
    /\ Len(Emitted) >= 3
    /\ Emitted[1] = Token("OpenParen", 0, 1)
    /\ Emitted[2] = Token("Error", 2, 3)
    /\ Emitted[3] = Token("EOF", 3, 3)

(***************************************************************************)
(* C24: the scan halts at the first lexical error: a token stream holds at *)
(* most one Error token, the token right after an Error token is EOF with  *)
(* Start = End = the End of the Error token, and no token is produced for  *)
(* the source text after the error.                                        *)
(***************************************************************************)
C24_HaltsAtFirstError ==
    /\ Cardinality({k \in DOMAIN Emitted : Emitted[k].Kind = "Error"}) <= 1
    /\ \A k \in DOMAIN Emitted :
           Emitted[k].Kind = "Error" =>
               /\ k < Len(Emitted) =>
                      Emitted[k + 1] = Token("EOF", Emitted[k].End, Emitted[k].End)
               /\ \A j \in (k + 1)..Len(Emitted) :
                      Emitted[j].Kind = "EOF" /\ Emitted[j].Start = Emitted[j].End
               /\ state \in {"nil", "close", "done"}

\* `#(`: the scan ended with the Error token of `#` and the EOF at offset 1;
\* the parenthesis after it was never scanned.
C24_Witness ==
    /\ lexer.src = <<"#", "(">>
    /\ state = "done"
    /\ Emitted = <<Token("Error", 0, 1), Token("EOF", 1, 1)>>

(***************************************************************************)
(* C25: for every input whose token stream holds no Error token, the first *)
(* EOF token has Start = End = len(source): EOF is emitted only after the  *)
(* whole input, every byte whatever its value, has been consumed.          *)
(***************************************************************************)
C25_EOFAtEndOfInput ==
    \A stream \in {UpToEOF(Emitted)} :
        (/\ stream # <<>>
         /\ stream[Len(stream)].Kind = "EOF"
         /\ \A k \in DOMAIN stream : stream[k].Kind # "Error")
            => stream[Len(stream)] = Token("EOF", Len(lexer.src), Len(lexer.src))

(***************************************************************************)
(* C26: producer and consumer never deadlock.  With a fairly scheduled     *)
(* scanning goroutine every NextToken call eventually returns; the channel *)
(* never holds more than 128 tokens; when the consumer keeps calling       *)
(* NextToken until it receives EOF, the goroutine sends EOF, closes the    *)
(* channel once, after the EOF, and terminates; and no token is sent after *)
(* the close.                                                              *)
(***************************************************************************)
\* What is left for the goroutine to do: the calls of state functions that
\* the bytes left allow, then the send of EOF, then the close.
Rank(st, l) ==
    CASE st \in StateFns -> Measure(l, st) + 3
      [] st = "nil" -> 2
      [] st = "close" -> 1
      [] OTHER -> 0

\* A receive cannot block for ever: when the channel is empty and open the
\* goroutine has a step to take, which the empty channel cannot block; and
\* when the goroutine is blocked on its send the channel is full, so the
\* consumer can receive.
NeverStuck ==
    /\ (tokens = <<>> /\ ~closed) => state \in StateFns \cup {"nil", "close"}
    /\ state \in StateFns =>
           \A res \in {Apply(state, lexer)} :
               Len(tokens) + Len(res.emit) > bufferSize => Len(tokens) = bufferSize
    /\ closed <=> state = "done"
    /\ Rank(state, lexer) >= 0

\* Every step of the goroutine brings it nearer to its end; the close comes
\* right after the send of EOF, once, and nothing is sent after it.
C26_Step ==
    /\ <<lexer, state, closed>>' # <<lexer, state, closed>>
           => Rank(state', lexer') < Rank(state, lexer)
    /\ closed => closed' /\ state' = "done" /\ Len(tokens') <= Len(tokens)
    /\ closed' /\ ~closed =>
           /\ tokens' = tokens
           /\ Emitted # <<>> /\ Emitted[Len(Emitted)].Kind = "EOF"
    /\ state' = "close" /\ state # "close" =>
           tokens' = Append(tokens, Token("EOF", lexer.pos, lexer.pos))

Remaining(p) ==
    LET e == CHOOSE k \in DOMAIN p.toks :
                 /\ p.toks[k].Kind = "EOF"
                 /\ \A j \in 1..(k - 1) : p.toks[j].Kind # "EOF"
    IN  IF p.n - 1 >= e THEN 0 ELSE e - (p.n - 1)

\* The loop of Parse runs exactly while tokens remain.
LoopEndsAtEOF ==
    pstate = "loop" => (Is(parser.current, "EOF") <=> Remaining(parser) = 0)

\* An iteration of the binary-operator loop, entered after the operand the
\* statement starts with, consumes at least the operator.
BinaryIterationConsumes ==
    (/\ pstate = "loop"
     /\ parser.current.Kind \in {"Ident", "Number"}
     /\ ~Is(parser.next, "SemiColon")
     /\ Precedence(parser.next) > PrecedenceMin
     /\ IsBinaryOp(parser.next))
        => \A b \in {parseBinaryExpression(advance(parser), parseIdent(parser).node)} :
               b.p.n >= parser.n + 2

\* An iteration of the statement loop consumes at least one token, whether
\* or not it recorded an error, and leaves fewer tokens to parse.
C27_Step ==
    pstate = "loop" /\ parser' # parser =>
        /\ parser'.n > parser.n
        /\ Remaining(parser') < Remaining(parser)
        /\ pstate' = "loop"

C27_ParseTerminates ==
    /\ []LoopEndsAtEOF
    /\ []BinaryIterationConsumes
    /\ [][C27_Step]_vars

\* `( ( #`: Parse returned, with errors, for a source of unbalanced
\* parentheses that ends in a lexical error.
C27_Witness ==
    /\ parser.src = <<"(", " ", "(", " ", "#">>
    /\ pstate = "returned"
    /\ parser.errs # <<>>

(***************************************************************************)
(* C28: in one Interpreter session, once a name has been bound by a        *)
(* successful declaration its value never changes: after any further Eval  *)
(* calls on programs obtained from Parse, successful or failing, attempts  *)
(* to declare the name again included, evaluating the identifier returns   *)
(* the value bound first (no parsed program reaches Environment.Assign,    *)
(* and Define refuses a name the scope has).                               *)
(***************************************************************************)
C28_Step ==
    /\ \A e \in DOMAIN envs :
           /\ e \in DOMAIN envs'
           /\ \A x \in DOMAIN envs[e].values :
                  /\ x \in DOMAIN envs'[e].values
                  /\ SameForm(envs'[e].values[x], envs[e].values[x])
    /\ (/\ log'.calls = log.calls + 1
        /\ log'.src = Words(<<<<"a">>>>)
        /\ <<"a">> \in DOMAIN envs[interps[log'.i].env].values)
           => /\ log'.err = <<>>
              /\ ~log'.panic
              /\ SameForm(log'.val, envs[interps[log'.i].env].values[<<"a">>])

\* Every Eval call and every copy of the interpreter is such a step.
C28_BoundOnce == [][C28_Step]_<<log.calls, interps>>

\* `var a = 1;` bound a, and a later `var a = true;` failed and left a
\* bound to the number.
C28_Witness ==
    /\ log.calls = 2
    /\ log.src = Words(<<KwVar, <<"a">>, <<"=">>, KwTrue>>)
    /\ log.err # <<>>
    /\ log.err[1] = "variable already defined in this scope"
    /\ <<"a">> \in DOMAIN envs[1].values
    /\ envs[1].values[<<"a">>].t = "Number"

(***************************************************************************)
(* C29: if Parse returns a nil error, the Program is a complete tree:      *)
(* every statement has a non-nil expression or declaration, every Unary a  *)
(* non-nil operand, every Binary non-nil Left and Right, every Grouped a   *)
(* non-nil inner expression and an RParen token of kind CloseParen; a nil  *)
(* child is only ever built after a syntax error has been recorded.        *)
(***************************************************************************)
RECURSIVE Complete(_)
Complete(node) ==
    CASE node.type \in {"ExpressionStatement", "PrintStatement", "ReturnStatement",
                        "DeclarationStatement", "VarDeclaration", "UnaryExpression"}
            -> node.Value # NilNode /\ Complete(node.Value)
      [] node.type = "BinaryExpression"
            -> /\ node.Left # NilNode /\ Complete(node.Left)
               /\ node.Right # NilNode /\ Complete(node.Right)
      [] node.type = "GroupedExpression"
            -> /\ node.Value # NilNode /\ Complete(node.Value)
               /\ node.RParen.Kind = "CloseParen"
      [] OTHER -> node # NilNode

C29_CompleteTree ==
    /\ \A k \in DOMAIN prog : Complete(prog[k])
    /\ (pstate = "loop" /\ ~Is(parser.current, "EOF")) =>
           \A st \in {parseStatement(parser)} :
               ~Complete(st.node) => Len(st.p.errs) > Len(parser.errs)

\* `( a ) ;` was parsed without error into a statement holding a Grouped
\* expression closed by its ')'.
C29_Witness ==
    /\ pstate = "returned"
    /\ parser.errs = <<>>
    /\ Len(prog) = 1
    /\ prog[1].type = "ExpressionStatement"
    /\ prog[1].Value.type = "GroupedExpression"
    /\ prog[1].Value.RParen.Kind = "CloseParen"

(***************************************************************************)
(* C30: the parser accepts `or` and `and` as binary operators at           *)
(* Comparison precedence and builds Binary nodes for them without error,   *)
(* but the evaluator implements neither: Eval of a Binary node whose       *)
(* operator is `or` or `and` evaluates both operands (the left one, then   *)
(* the right one whatever the left one's value, the failure of either      *)
(* being the outcome) and then always returns an 'unsupported binary       *)
(* operator' error: never a value, and never short-circuiting.             *)
(***************************************************************************)
\* The expression of the only statement Parse returns for the source s.
Expr(s) == ParsedBinary[s].Statements[1].Value

OpKinds(node) ==
    <<node.Op.Kind,
      IF node.Left.type = "BinaryExpression" THEN node.Left.Op.Kind ELSE "none",
      IF node.Right.type = "BinaryExpression" THEN node.Right.Op.Kind ELSE "none">>

ParsedAsBinary ==
    /\ \A s \in LogicalSources \cup MixedSources :
           /\ ParsedBinary[s].err = <<>>
           /\ Len(ParsedBinary[s].Statements) = 1
           /\ Expr(s).type = "BinaryExpression"
           /\ Expr(s).Left # NilNode /\ Expr(s).Right # NilNode
    /\ \A s \in LogicalSources :
           /\ Expr(s).Op.Kind \in {"Or", "And"}
           /\ Precedence(Expr(s).Op) = PrecedenceComp
    /\ OpKinds(Expr(Words(<<<<"1">>, <<"=", "=">>, <<"0">>, KwOr, <<"1">>>>)))
           = <<"DoubleEq", "none", "Or">>
    /\ OpKinds(Expr(Words(<<<<"1">>, KwOr, <<"0">>, <<"+">>, <<"1">>>>)))
           = <<"Or", "none", "Plus">>
    /\ OpKinds(Expr(Words(<<<<"1">>, KwOr, <<"0">>, <<"<">>, <<"1">>>>)))
           = <<"LessThan", "Or", "none">>
    /\ OpKinds(Expr(Words(<<<<"1">>, <<"<">>, <<"0">>, KwAnd, <<"1">>>>)))
           = <<"And", "LessThan", "none">>

Failed(r) == r.panic \/ r.err # <<>>

\* The outcome r is the failure f: the same panic, or the same error.
SameFailure(r, f) ==
    /\ r.panic = f.panic
    /\ Len(r.err) = Len(f.err)
    /\ r.err # <<>> => r.err[1] = f.err[1]

C30_LogicalUnsupported ==
    /\ ParsedAsBinary
    /\ \A node \in LatestBinary :
           node.Op.Kind \in {"Or", "And"} =>
               \A l \in {Eval(interps[log.i], node.Left, Memory)} :
               \A r \in {Eval(interps[log.i], node.Right, Memory)} :
                   /\ log.val = Nil
                   /\ Failed(log)
                   /\ Failed(l) => SameFailure(log, l)
                   /\ ~Failed(l) /\ Failed(r) => SameFailure(log, r)
                   /\ ~Failed(l) /\ ~Failed(r) =>
                          /\ ~log.panic
                          /\ Len(log.err) = 2
                          /\ log.err[1] = "unsupported binary operator"
                          /\ log.err[2] = node.Op.Kind

\* `true or 0;` returned the error and no value, where a short-circuiting
\* `or` yields true.
C30_Witness ==
    /\ log.src = Words(<<KwTrue, KwOr, <<"0">>>>)
    /\ log.val = Nil
    /\ ~log.panic
    /\ log.err # <<>>
    /\ log.err[1] = "unsupported binary operator"

====
